---- MODULE Spec2Model ----
(***************************************************************************)
(* Verification model of the reconciliation and scoring pipeline of        *)
(* github-team-metrics:                                                    *)
(*   GitHubMetricsCollector.aggregate_by_team_member  (github_fetcher.py)  *)
(*   DataCombiner._match_users / merge_datasets       (data_processor.py)  *)
(*   MetricsCalculator.calculate_derived_metrics      (data_processor.py)  *)
(*   PerformanceRanker                                (performance_ranker) *)
(*                                                                         *)
(* Conventions.  Identities are strings; Chars gives the characters of an  *)
(* identity so that lower(), replace() and difflib's ratio are computed on *)
(* the characters.  Python floats that the code rounds to two decimals are *)
(* kept as integers in hundredths (5000 is 50.0); complexity samples are   *)
(* whole numbers.  Python's None is the string "None".                     *)
(***************************************************************************)
EXTENDS Integers, Sequences, FiniteSets, TLC

None == "None"

\* ------------------------------------------------------------------------
\* Bounds of the model
\* ------------------------------------------------------------------------
MaxGitHubUsers == 2
MaxTicketUsers == 2
MaxMappings == 1
MaxCommits == 2
MaxPullRequests == 2
MaxIssues == 2
MaxEngineers == 3
MaxValue == 6
MaxPipeEvents == 1
MaxTeam == 20
MaxRecords == 2
MaxReported == 2
MaxCompared == 3
MaxRetries == 2
MaxDelay == 3
MaxClosedIssues == 3
MaxDay == 5

\* ------------------------------------------------------------------------
\* Generic helpers
\* ------------------------------------------------------------------------
Range(s) == {s[i] : i \in 1..Len(s)}

\* list(S) for a Python set S whose iteration order is `order`
ListOf(S, order) == SelectSeq(order, LAMBDA x : x \in S)

\* all orderings of a finite set (the iteration orders a Python set may have)
Orderings(S) == {o \in [1..Cardinality(S) -> S] : Range(o) = S}

\* dict.get(key, default)
Get(d, key, default) == IF key \in DOMAIN d THEN d[key] ELSE default

RECURSIVE SumSeq(_)
SumSeq(s) == IF s = <<>> THEN 0 ELSE Head(s) + SumSeq(Tail(s))

\* position of x in the sequence s (0 when absent)
IndexOf(s, x) == IF x \in Range(s) THEN CHOOSE i \in 1..Len(s) : s[i] = x /\ \A j \in 1..(i-1) : s[j] # x ELSE 0

\* ------------------------------------------------------------------------
\* Identities and their characters
\* ------------------------------------------------------------------------
GitHubPool == {"jdoe99", "john-doe", "johndoe", "bob", "alextur-sky", "alexturn33"}
TicketPool == {"John Doe", "Jon Doe", "Bob", "BOB", "Alex Turner"}

\* names and logins that coincide as strings or differ only in case: the
\* login "bob" and the sheet names "Bob", "BOB" and "bob"
MergeGitHubPool == {"bob", "john-doe", "johndoe"}
MergeTicketPool == {"Bob", "BOB", "bob", "John Doe"}

Chars(s) ==
  CASE s = "John Doe"    -> <<"J", "o", "h", "n", " ", "D", "o", "e">>
    [] s = "Jon Doe"     -> <<"J", "o", "n", " ", "D", "o", "e">>
    [] s = "Bob"         -> <<"B", "o", "b">>
    [] s = "BOB"         -> <<"B", "O", "B">>
    [] s = "Alex Turner" -> <<"A", "l", "e", "x", " ", "T", "u", "r", "n", "e", "r">>
    [] s = "jdoe99"      -> <<"j", "d", "o", "e", "9", "9">>
    [] s = "john-doe"    -> <<"j", "o", "h", "n", "-", "d", "o", "e">>
    [] s = "johndoe"     -> <<"j", "o", "h", "n", "d", "o", "e">>
    [] s = "bob"         -> <<"b", "o", "b">>
    [] s = "alextur-sky" -> <<"a", "l", "e", "x", "t", "u", "r", "-", "s", "k", "y">>
    [] s = "alexturn33"  -> <<"a", "l", "e", "x", "t", "u", "r", "n", "3", "3">>
    [] s = "bug" -> <<"b", "u", "g">>
    [] s = "invalid" -> <<"i", "n", "v", "a", "l", "i", "d">>
    [] s = "Invalid" -> <<"I", "n", "v", "a", "l", "i", "d">>
    [] s = "duplicate" -> <<"d", "u", "p", "l", "i", "c", "a", "t", "e">>
    [] s = "Duplicate" -> <<"D", "u", "p", "l", "i", "c", "a", "t", "e">>
    [] s = "complexity" -> <<"c", "o", "m", "p", "l", "e", "x", "i", "t", "y">>
    [] s = "Complexity" -> <<"C", "o", "m", "p", "l", "e", "x", "i", "t", "y">>
    [] s = "Priority" -> <<"P", "r", "i", "o", "r", "i", "t", "y">>
    [] s = "claude" -> <<"c", "l", "a", "u", "d", "e">>
    [] s = "dependabot" -> <<"d", "e", "p", "e", "n", "d", "a", "b", "o", "t">>
    [] s = "github-code-quality" -> <<"g", "i", "t", "h", "u", "b", "-", "c", "o", "d", "e", "-", "q", "u", "a", "l", "i", "t", "y">>
    [] s = "renovate" -> <<"r", "e", "n", "o", "v", "a", "t", "e">>
    [] s = "snyk" -> <<"s", "n", "y", "k">>
    [] s = "greenkeeper" -> <<"g", "r", "e", "e", "n", "k", "e", "e", "p", "e", "r">>
    [] s = "codecov" -> <<"c", "o", "d", "e", "c", "o", "v">>
    [] s = "sonarcloud" -> <<"s", "o", "n", "a", "r", "c", "l", "o", "u", "d">>
    [] s = "[bot]" -> <<"[", "b", "o", "t", "]">>
    [] s = "-bot" -> <<"-", "b", "o", "t">>
    [] s = "bot-" -> <<"b", "o", "t", "-">>
    [] s = "bot_" -> <<"b", "o", "t", "_">>
    [] s = "bot" -> <<"b", "o", "t">>
    [] s = "agent" -> <<"a", "g", "e", "n", "t">>

UpperCase == <<"A", "B", "C", "D", "E", "F", "G", "H", "I", "J", "K", "L", "M", "N", "O", "P", "Q", "R", "S", "T", "U", "V", "W", "X", "Y", "Z">>
LowerCase == <<"a", "b", "c", "d", "e", "f", "g", "h", "i", "j", "k", "l", "m", "n", "o", "p", "q", "r", "s", "t", "u", "v", "w", "x", "y", "z">>

\* str.lower() on one character and on a string
LowerChar(c) == IF c \in Range(UpperCase) THEN LowerCase[IndexOf(UpperCase, c)] ELSE c
Lower(cs) == [i \in 1..Len(cs) |-> LowerChar(cs[i])]

\* str.replace(ch, '')
Remove(cs, ch) == SelectSeq(cs, LAMBDA c : c # ch)

\* the two sides as handed to SequenceMatcher (data_processor.py l.131-132)
NormTicket(t) == Remove(Lower(Chars(t)), " ")
NormGitHub(g) == Remove(Remove(Lower(Chars(g)), "-"), "_")

\* ------------------------------------------------------------------------
\* difflib.SequenceMatcher(None, a, b).ratio()  (no junk, len(b) < 200)
\* ------------------------------------------------------------------------
\* length of the common run of a and b that starts at a[i], b[j] and stays
\* inside a[..ahi], b[..bhi]  (inclusive upper ends)
RECURSIVE RunLen(_, _, _, _, _, _)
RunLen(a, b, i, j, ahi, bhi) ==
  IF i > ahi \/ j > bhi THEN 0
  ELSE IF a[i] # b[j] THEN 0
  ELSE 1 + RunLen(a, b, i + 1, j + 1, ahi, bhi)

\* find_longest_match: the longest block; of those the one starting earliest
\* in a, and of those the one starting earliest in b
FindLongestMatch(a, b, alo, ahi, blo, bhi) ==
  LET cands == {<<i, j, RunLen(a, b, i, j, ahi, bhi)>> : i \in alo..ahi, j \in blo..bhi}
      Better(c, d) == \/ c[3] > d[3]
                      \/ c[3] = d[3] /\ c[1] < d[1]
                      \/ c[3] = d[3] /\ c[1] = d[1] /\ c[2] <= d[2]
  IN  IF cands = {} THEN <<alo, blo, 0>>
      ELSE CHOOSE c \in cands : \A d \in cands : Better(c, d)

\* sum of the sizes of get_matching_blocks(): the longest block, then the
\* pieces to its left and to its right
RECURSIVE MatchingSize(_, _, _, _, _, _)
MatchingSize(a, b, alo, ahi, blo, bhi) ==
  IF alo > ahi \/ blo > bhi THEN 0
  ELSE LET m == FindLongestMatch(a, b, alo, ahi, blo, bhi)
       IN  IF m[3] = 0 THEN 0
           ELSE m[3] + MatchingSize(a, b, alo, m[1] - 1, blo, m[2] - 1)
                     + MatchingSize(a, b, m[1] + m[3], ahi, m[2] + m[3], bhi)

\* ratio() = 2.0 * matches / length, 1.0 when both are empty; kept as the
\* exact fraction <<numerator, denominator>>
Ratio(a, b) ==
  LET length == Len(a) + Len(b)
  IN  IF length = 0 THEN <<1, 1>>
      ELSE <<2 * MatchingSize(a, b, 1, Len(a), 1, Len(b)), length>>

\* r > s on fractions with positive denominators
RatioGreater(r, s) == r[1] * s[2] > s[1] * r[2]

\* best_ratio = 0.7  (data_processor.py l.125)
Threshold == <<7, 10>>

\* the ratio of every ticket name against every login, computed once
Similarity == [t \in TicketPool \cup MergeTicketPool |-> [g \in GitHubPool \cup {"dependabot"} |-> Ratio(NormTicket(t), NormGitHub(g))]]

\* ------------------------------------------------------------------------
\* State
\* ------------------------------------------------------------------------
VARIABLES
  pc,               \* position in the pipeline
  commits,          \* raw_data['commits']
  pull_requests,    \* raw_data['pull_requests']
  issues,           \* raw_data['issues']
  user_metrics,     \* aggregate_by_team_member: login -> accumulator
  agg_todo,         \* the rest of the list the running aggregation loop iterates
  issue_credits,    \* history: <<repo, number, login>> of every issues_closed += 1
  github_data,      \* merge_datasets argument: login -> AggregatedMetrics
  ticket_data,      \* merge_datasets argument: assignee name -> TicketMetrics
  team_member_map,  \* DataCombiner.team_member_map: ticket name -> login
  gh_order,         \* iteration order of the set github_only
  tk_order,         \* iteration order of the set ticket_only
  matched,          \* _match_users: list of (github_user, ticket_user)
  github_only,      \* _match_users: set of logins not yet paired
  ticket_only,      \* _match_users: set of ticket names not yet paired
  loop_items,       \* the rest of list(ticket_only) the running loop iterates
  match_pass,       \* history: the pass that produced matched[i]
  fuzzy_seen,       \* history: identities the fuzzy pass iterated or compared
  combined_data,    \* merge_datasets result: list of CombinedRecord
  enhanced_data,    \* the list main works on: positions in combined_data
  ranked_engineers, \* rank_engineers result: positions in combined_data
  norm_call,        \* a call of normalize_to_100: its arguments, then its result
  analyzer,         \* generate_individual_reports: how the AI step went
  ai_tasks,         \* the futures of the AI step, one per engineer of enhanced_data
  raised_data,      \* a second cohort for comparison: the dicts of combined_data with one signal raised
  main,             \* main(): the requests issued, the report written, the exit status
  wrapper,          \* a call of a function wrapped by retry_with_exponential_backoff
  get_issues        \* a call of GitHubClient.get_issues: pages, cursor, result

aggVars == <<commits, pull_requests, issues, user_metrics, agg_todo, issue_credits>>

matchVars == <<github_data, ticket_data, team_member_map, gh_order, tk_order, matched, github_only, ticket_only, loop_items, match_pass, fuzzy_seen, combined_data>>

rankVars == <<enhanced_data, ranked_engineers, norm_call, analyzer, ai_tasks, raised_data>>

ioVars == <<main, wrapper, get_issues>>

vars == <<pc, aggVars, matchVars, rankVars, ioVars>>

\* ------------------------------------------------------------------------
\* Sample metric bundles the identity-resolution runs are started with
\* ------------------------------------------------------------------------
\* an AggregatedMetrics as built at github_fetcher.py l.867-887
AggregatedMetrics(n_commits, freq, created, merged, rate, n_issues, complexity, given, received, participation, repos) ==
  [total_commits |-> n_commits, commit_frequency |-> freq,
   prs_created |-> created, prs_merged |-> merged, pr_merge_rate |-> rate,
   issues_closed |-> n_issues, total_complexity_score |-> complexity,
   reviews_given |-> given, reviews_received |-> received,
   review_participation |-> participation, active_repos |-> repos]

\* a TicketMetrics as built at sheets_reader.py l.350-356
TicketMetrics(total, open, closed) ==
  [total_tickets |-> total, tickets_open |-> open, tickets_closed |-> closed]

GitHubMetricsPool ==
  { AggregatedMetrics(3, 10, 2, 1, 5000, 1, 10, 1, 2, 50, {"org/api"}),
    AggregatedMetrics(1, 3, 0, 0, 0, 0, 0, 2, 0, 0, {"org/web"}) }

TicketMetricsPool == { TicketMetrics(2, 1, 1), TicketMetrics(1, 0, 1) }

MapKeys == {"John Doe", "Jon Doe", "Bob"}
MapValues == {"jdoe99", "john-doe"}

BoundedSubsets(S, n) == {X \in SUBSET S : Cardinality(X) <= n}

\* every dict with keys among K (at most n of them) and values in V
Dicts(K, V, n) == UNION {[X -> V] : X \in BoundedSubsets(K, n)}

\* ------------------------------------------------------------------------
\* Raw events  (the shapes of the GraphQL nodes, github_fetcher.py l.192-213,
\* l.296-316, l.405-471).  A null object and an empty one are both falsy
\* for the code and are both written <<>>; a null login is None.
\* ------------------------------------------------------------------------
NumDays == 30

Repos == {"org/api", "org/web"}

\* commit: author.user.login (None when the author has no account) and repo
Commit(login, repo) == [login |-> login, repo |-> repo]

CommitPool ==
  { Commit("john-doe", "org/api"), Commit("john-doe", "org/web"),
    Commit("bob", "org/api"), Commit(None, "org/api") }

\* pull request: author.login, mergedAt present or not, the logins of the
\* authors of its reviews
PullRequest(author, merged, number, repo, reviewers) ==
  [author |-> author, merged |-> merged, number |-> number, repo |-> repo, reviewers |-> reviewers]

PullRequestPool ==
  { PullRequest("john-doe", TRUE, 11, "org/api", <<"bob">>),
    PullRequest("bob", FALSE, 12, "org/api", <<"john-doe", "john-doe">>),
    PullRequest(None, TRUE, 13, "org/api", <<"bob">>),
    PullRequest("john-doe", FALSE, 14, "org/web", <<None, "bob">>),
    PullRequest("bob", TRUE, 15, "org/web", <<"bob">>),
    PullRequest("john-doe", TRUE, 16, "org/web", <<>>) }

\* timeline items of an issue: a cross-reference whose source is a pull
\* request or something else, a connection whose subject is a pull request
\* or something else
CrossRefPR == [source |-> [number |-> 11]]
CrossRefOther == [source |-> <<>>]
ConnectedPR == [subject |-> [number |-> 12]]
ConnectedOther == [subject |-> <<>>]

\* project field values: a number field, or a text field with the float it
\* parses to (<<>> when float() raises)
NumberField(name, n) == [field_name |-> name, number |-> n]
TextField(name, parsed) == [field_name |-> name, text |-> parsed]

\* issue: number, repo, label names, timeline items, the actor logins of the
\* closedBy nodes, the project field values
Issue(number, repo, labels, timeline, closed_by, field_values) ==
  [number |-> number, repo |-> repo, labels |-> labels, timeline |-> timeline,
   closed_by |-> closed_by, field_values |-> field_values]

IssuePool ==
  { Issue(1, "org/api", <<"bug">>, <<CrossRefPR>>, <<"john-doe">>, <<NumberField("Complexity", 10)>>),
    Issue(2, "org/api", <<>>, <<CrossRefOther, ConnectedPR>>, <<"bob">>, <<NumberField("Priority", 1)>>),
    Issue(1, "org/web", <<>>, <<ConnectedPR>>, <<"john-doe">>, <<TextField("complexity", <<5>>)>>),
    Issue(2, "org/web", <<"bug">>, <<CrossRefPR>>, <<"john-doe">>, <<TextField("Complexity", <<>>), NumberField("Complexity", 3)>>),
    Issue(3, "org/api", <<"bug", "Invalid">>, <<CrossRefPR>>, <<"john-doe">>, <<NumberField("Complexity", 8)>>),
    Issue(4, "org/api", <<"duplicate">>, <<ConnectedPR>>, <<"bob">>, <<NumberField("Complexity", 4)>>),
    Issue(5, "org/api", <<>>, <<CrossRefOther, ConnectedOther>>, <<"bob">>, <<NumberField("Complexity", 2)>>),
    Issue(6, "org/api", <<>>, <<CrossRefPR>>, <<None>>, <<NumberField("Complexity", 1)>>) }

\* every list over pool of at most n entries
Lists(pool, n) == UNION {[1..k -> pool] : k \in 0..n}

\* ------------------------------------------------------------------------
\* GitHubClient._is_valid_issue, _extract_complexity_score
\* (github_fetcher.py l.539-618)
\* ------------------------------------------------------------------------
\* pattern in text
IsSubstring(pattern, text) ==
  \E i \in 0..(Len(text) - Len(pattern)) : SubSeq(text, i + 1, i + Len(pattern)) = pattern

\* l.588-592: the lower-cased label names contain 'invalid' or 'duplicate'
HasExclusionLabel(issue) ==
  LET label_names == {Lower(Chars(issue.labels[i])) : i \in 1..Len(issue.labels)}
  IN  Chars("invalid") \in label_names \/ Chars("duplicate") \in label_names

\* l.598-611: some timeline item has a non-empty source or subject with a number
HasLinkedPR(issue) ==
  \E i \in 1..Len(issue.timeline) :
    LET item == issue.timeline[i]
    IN  \/ "source" \in DOMAIN item /\ DOMAIN item.source # {} /\ "number" \in DOMAIN item.source
        \/ "subject" \in DOMAIN item /\ DOMAIN item.subject # {} /\ "number" \in DOMAIN item.subject

\* _is_valid_issue without the 'duplicate' label of l.591
IsValidIssue_InvalidLabelOnly(issue) ==
  /\ Chars("invalid") \notin {Lower(Chars(issue.labels[i])) : i \in 1..Len(issue.labels)}
  /\ HasLinkedPR(issue)

IsValidIssue(issue) == ~HasExclusionLabel(issue) /\ HasLinkedPR(issue)

\* l.551-568: the value of the first field whose lower-cased name contains
\* 'complexity' and that has a number or a parseable text; <<>> for None
RECURSIVE ExtractComplexityScore(_)
ExtractComplexityScore(field_values) ==
  IF field_values = <<>> THEN <<>>
  ELSE LET fv == Head(field_values)
       IN  IF IsSubstring(Chars("complexity"), Lower(Chars(fv.field_name)))
           THEN IF "number" \in DOMAIN fv THEN <<fv.number>>
                ELSE IF "text" \in DOMAIN fv /\ fv.text # <<>> THEN fv.text
                ELSE ExtractComplexityScore(Tail(field_values))
           ELSE ExtractComplexityScore(Tail(field_values))

\* ------------------------------------------------------------------------
\* GitHubMetricsCollector.aggregate_by_team_member
\* (github_fetcher.py l.715-889)
\* ------------------------------------------------------------------------
\* l.730-748: the default accumulator
NewMetrics ==
  [total_commits |-> 0, prs_created |-> 0, prs_merged |-> 0, issues_closed |-> 0,
   complexity_scores |-> <<>>, issue_numbers |-> {}, reviews_given |-> <<>>,
   reviews_received |-> <<>>, active_repos |-> {}]

\* user_metrics[u] on the defaultdict: the entry is created when missing
Touch(um, u) == IF u \in DOMAIN um THEN um ELSE um @@ (u :> NewMetrics)

\* l.751-763 for one commit, counting a commit without login under "None"
CommitUpdate_CountsUnknown(um, commit) ==
  LET u == commit.login
      t == Touch(um, u)
  IN  [t EXCEPT ![u].total_commits = @ + 1, ![u].active_repos = @ \cup {commit.repo}]

\* l.751-763 for one commit
CommitUpdate(um, commit) ==
  IF commit.login # None
  THEN LET u == commit.login
           t == Touch(um, u)
       IN  [t EXCEPT ![u].total_commits = @ + 1, ![u].active_repos = @ \cup {commit.repo}]
  ELSE um

\* l.789-815 for the reviews of one pull request of author `username`
RECURSIVE ReviewsUpdate(_, _, _, _)
ReviewsUpdate(um, pr, username, reviewers) ==
  IF reviewers = <<>> THEN um
  ELSE LET reviewer_login == Head(reviewers)
       IN  IF reviewer_login = None THEN ReviewsUpdate(um, pr, username, Tail(reviewers))
           ELSE LET t1 == Touch(um, reviewer_login)
                    t2 == [t1 EXCEPT ![reviewer_login].reviews_given = Append(@, [pr |-> pr.number, repo |-> pr.repo])]
                    t3 == Touch(t2, username)
                    t4 == [t3 EXCEPT ![username].reviews_received = Append(@, [pr |-> pr.number, repo |-> pr.repo, reviewer |-> reviewer_login])]
                IN  ReviewsUpdate(t4, pr, username, Tail(reviewers))

\* the reviews loop crediting only the reviewer
RECURSIVE ReviewsUpdate_GivenOnly(_, _, _, _)
ReviewsUpdate_GivenOnly(um, pr, username, reviewers) ==
  IF reviewers = <<>> THEN um
  ELSE LET reviewer_login == Head(reviewers)
       IN  IF reviewer_login = None THEN ReviewsUpdate_GivenOnly(um, pr, username, Tail(reviewers))
           ELSE LET t1 == Touch(um, reviewer_login)
                    t2 == [t1 EXCEPT ![reviewer_login].reviews_given = Append(@, [pr |-> pr.number, repo |-> pr.repo])]
                IN  ReviewsUpdate_GivenOnly(t2, pr, username, Tail(reviewers))

\* l.766-815 for one pull request, with the reviews of an authorless pull
\* request still credited to their reviewers
PullRequestUpdate_KeepsOrphanReviews(um, pr) ==
  IF pr.author = None THEN ReviewsUpdate_GivenOnly(um, pr, None, pr.reviewers)
  ELSE LET username == pr.author
           t1 == Touch(um, username)
           t2 == [t1 EXCEPT ![username].prs_created = @ + 1,
                            ![username].active_repos = @ \cup {pr.repo},
                            ![username].prs_merged = IF pr.merged THEN @ + 1 ELSE @]
       IN  ReviewsUpdate(t2, pr, username, pr.reviewers)

\* l.766-815 for one pull request
PullRequestUpdate(um, pr) ==
  IF pr.author = None THEN um
  ELSE LET username == pr.author
           t1 == Touch(um, username)
           t2 == [t1 EXCEPT ![username].prs_created = @ + 1,
                            ![username].active_repos = @ \cup {pr.repo},
                            ![username].prs_merged = IF pr.merged THEN @ + 1 ELSE @]
       IN  ReviewsUpdate(t2, pr, username, pr.reviewers)

\* l.829-833: the login of the actor of the first closedBy node, None when
\* there is no node or no actor
Closer(issue) == IF issue.closed_by = <<>> THEN None ELSE issue.closed_by[1]

\* l.837: the issue increments issues_closed of its closer
IsCounted(um, issue) ==
  /\ IsValidIssue(issue)
  /\ Closer(issue) # None
  /\ issue.number \notin Touch(um, Closer(issue))[Closer(issue)].issue_numbers

\* l.820-847 for one issue, without the issue_numbers test of l.837
IssueUpdate_NoDuplicateTest(um, issue) ==
  IF ~IsValidIssue(issue) \/ Closer(issue) = None THEN um
  ELSE LET username == Closer(issue)
           t1 == Touch(um, username)
           complexity == ExtractComplexityScore(issue.field_values)
       IN  [t1 EXCEPT ![username].issues_closed = @ + 1,
                      ![username].active_repos = @ \cup {issue.repo},
                      ![username].issue_numbers = @ \cup {issue.number},
                      ![username].complexity_scores = @ \o complexity]

\* l.820-847 for one issue
IssueUpdate(um, issue) ==
  IF ~IsValidIssue(issue) \/ Closer(issue) = None THEN um
  ELSE LET username == Closer(issue)
           t1 == Touch(um, username)
           complexity == ExtractComplexityScore(issue.field_values)
       IN  IF issue.number \notin t1[username].issue_numbers
           THEN [t1 EXCEPT ![username].issues_closed = @ + 1,
                           ![username].active_repos = @ \cup {issue.repo},
                           ![username].issue_numbers = @ \cup {issue.number},
                           ![username].complexity_scores = @ \o complexity]
           ELSE t1

\* round(n / d) to the nearest whole number, halves to the even neighbour,
\* for n >= 0 and d > 0.  Python rounds the binary float, so a decimal half
\* that has no exact binary form may round the other way there.
RoundDiv(n, d) ==
  LET q == n \div d
      r == n % d
  IN  IF 2 * r < d THEN q
      ELSE IF 2 * r > d THEN q + 1
      ELSE IF q % 2 = 0 THEN q ELSE q + 1

\* l.856-887: the record of one login.  commit_frequency and
\* review_participation in hundredths; pr_merge_rate is rounded to one
\* decimal and kept in hundredths as well.
DerivedMetrics(metrics) ==
  LET given == Len(metrics.reviews_given)
      received == Len(metrics.reviews_received)
  IN  AggregatedMetrics(
        metrics.total_commits,
        RoundDiv(metrics.total_commits * 100, NumDays),
        metrics.prs_created,
        metrics.prs_merged,
        IF metrics.prs_created > 0 THEN 10 * RoundDiv(metrics.prs_merged * 1000, metrics.prs_created) ELSE 0,
        metrics.issues_closed,
        IF metrics.complexity_scores # <<>> THEN SumSeq(metrics.complexity_scores) ELSE 0,
        given,
        received,
        IF received > 0 THEN RoundDiv(given * 100, received) ELSE 0,
        metrics.active_repos)

\* l.725-727 and l.751: the commit loop starts
StartCommits ==
  /\ pc = "aggregate"
  /\ pc' = "agg_commits"
  /\ user_metrics' = <<>>
  /\ issue_credits' = <<>>
  /\ agg_todo' = commits
  /\ UNCHANGED <<ioVars, commits, pull_requests, issues, matchVars, rankVars>>

\* one iteration of the loop at l.751-763
ProcessCommit ==
  /\ pc = "agg_commits"
  /\ agg_todo # <<>>
  /\ user_metrics' = CommitUpdate(user_metrics, Head(agg_todo))
  /\ agg_todo' = Tail(agg_todo)
  /\ UNCHANGED <<pc, ioVars, commits, pull_requests, issues, issue_credits, matchVars, rankVars>>

\* l.766: the pull request loop starts
StartPullRequests ==
  /\ pc = "agg_commits"
  /\ agg_todo = <<>>
  /\ pc' = "agg_prs"
  /\ agg_todo' = pull_requests
  /\ UNCHANGED <<ioVars, commits, pull_requests, issues, user_metrics, issue_credits, matchVars, rankVars>>

\* one iteration of the loop at l.766-815
ProcessPullRequest ==
  /\ pc = "agg_prs"
  /\ agg_todo # <<>>
  /\ user_metrics' = PullRequestUpdate(user_metrics, Head(agg_todo))
  /\ agg_todo' = Tail(agg_todo)
  /\ UNCHANGED <<pc, ioVars, commits, pull_requests, issues, issue_credits, matchVars, rankVars>>

\* l.820: the issue loop starts
StartIssues ==
  /\ pc = "agg_prs"
  /\ agg_todo = <<>>
  /\ pc' = "agg_issues"
  /\ agg_todo' = issues
  /\ UNCHANGED <<ioVars, commits, pull_requests, issues, user_metrics, issue_credits, matchVars, rankVars>>

\* one iteration of the loop at l.820-847
ProcessIssue ==
  /\ pc = "agg_issues"
  /\ agg_todo # <<>>
  /\ LET issue == Head(agg_todo)
         after == IssueUpdate(user_metrics, issue)
         closer == Closer(issue)
     IN  /\ user_metrics' = after
         /\ issue_credits' =
              IF closer # None /\ closer \in DOMAIN after
                 /\ after[closer].issues_closed > Touch(user_metrics, closer)[closer].issues_closed
              THEN Append(issue_credits, <<issue.repo, issue.number, closer>>)
              ELSE issue_credits
  /\ agg_todo' = Tail(agg_todo)
  /\ UNCHANGED <<pc, ioVars, commits, pull_requests, issues, matchVars, rankVars>>

\* l.851-889: the result, which main hands to merge_datasets as github_data
\* (main.py l.376, l.388-391)
DeriveResult ==
  /\ pc = "agg_issues"
  /\ agg_todo = <<>>
  /\ pc' = "aggregated"
  /\ github_data' = [u \in DOMAIN user_metrics |-> DerivedMetrics(user_metrics[u])]
  /\ UNCHANGED <<ioVars, aggVars, ticket_data, team_member_map, gh_order, tk_order, matched, github_only, ticket_only, loop_items, match_pass, fuzzy_seen, combined_data, rankVars>>

\* ------------------------------------------------------------------------
\* Specification of the aggregation: aggregate_by_team_member is called on
\* some raw_data
\* ------------------------------------------------------------------------
\* main, the retry wrapper and get_issues are not running
IoIdle ==
  /\ main = <<>>
  /\ wrapper = <<>>
  /\ get_issues = <<>>

RankIdle ==
  /\ enhanced_data = <<>>
  /\ ranked_engineers = <<>>
  /\ norm_call = <<>>
  /\ analyzer = "none"
  /\ ai_tasks = <<>>
  /\ raised_data = <<>>

MatchIdle ==
  /\ github_data = <<>>
  /\ ticket_data = <<>>
  /\ team_member_map = <<>>
  /\ gh_order = <<>>
  /\ tk_order = <<>>
  /\ matched = <<>>
  /\ match_pass = <<>>
  /\ github_only = {}
  /\ ticket_only = {}
  /\ loop_items = <<>>
  /\ fuzzy_seen = {}
  /\ combined_data = <<>>

AggInit ==
  /\ IoIdle
  /\ pc = "aggregate"
  /\ commits \in Lists(CommitPool, MaxCommits)
  /\ pull_requests \in Lists(PullRequestPool, MaxPullRequests)
  /\ issues \in Lists(IssuePool, MaxIssues)
  /\ user_metrics = <<>>
  /\ agg_todo = <<>>
  /\ issue_credits = <<>>
  /\ MatchIdle
  /\ RankIdle

AggNext ==
  \/ StartCommits
  \/ ProcessCommit
  \/ StartPullRequests
  \/ ProcessPullRequest
  \/ StartIssues
  \/ ProcessIssue
  \/ DeriveResult

SpecAgg == AggInit /\ [][AggNext]_vars

\* ------------------------------------------------------------------------
\* DataCombiner._match_users  (data_processor.py l.85-149)
\* ------------------------------------------------------------------------
\* l.107: ticket_user.lower() == github_user.lower()
LowerEqual(t, g) == Lower(Chars(t)) = Lower(Chars(g))

\* l.106-111: the first login of list(github_only) equal to the ticket name
\* up to case, None when there is none
RECURSIVE ExactMatch(_, _)
ExactMatch(t, candidates) ==
  IF candidates = <<>> THEN None
  ELSE IF LowerEqual(t, Head(candidates)) THEN Head(candidates)
  ELSE ExactMatch(t, Tail(candidates))

\* l.115-117: the mapped login when the ticket name has one and it is still
\* in github_only, None otherwise
ManualMatch(t, mapping, gh_only) ==
  IF t \in DOMAIN mapping /\ mapping[t] \in gh_only THEN mapping[t] ELSE None

\* BestFuzzyMatch with `ratio >= best_ratio` in place of `ratio > best_ratio`
RECURSIVE BestFuzzyMatch_AtLeast(_, _, _, _)
BestFuzzyMatch_AtLeast(t, candidates, best_match, best_ratio) ==
  IF candidates = <<>> THEN <<best_match, best_ratio>>
  ELSE LET g == Head(candidates)
           ratio == Similarity[t][g]
       IN  IF ~RatioGreater(best_ratio, ratio)
           THEN BestFuzzyMatch_AtLeast(t, Tail(candidates), g, ratio)
           ELSE BestFuzzyMatch_AtLeast(t, Tail(candidates), best_match, best_ratio)

\* l.124-137: the loop over github_only keeping the strictly best ratio seen
\* so far, starting from best_ratio = 0.7; yields <<best_match, best_ratio>>
RECURSIVE BestFuzzyMatch(_, _, _, _)
BestFuzzyMatch(t, candidates, best_match, best_ratio) ==
  IF candidates = <<>> THEN <<best_match, best_ratio>>
  ELSE LET g == Head(candidates)
           ratio == Similarity[t][g]
       IN  IF RatioGreater(ratio, best_ratio)
           THEN BestFuzzyMatch(t, Tail(candidates), g, ratio)
           ELSE BestFuzzyMatch(t, Tail(candidates), best_match, best_ratio)

\* truth value of a str-or-None
Truthy(x) == x # None /\ x # ""

\* AddPair without github_only.discard(github_user)
AddPair_KeepsLogin(g, t, pass) ==
  /\ matched' = Append(matched, <<g, t>>)
  /\ match_pass' = Append(match_pass, pass)
  /\ github_only' = github_only
  /\ ticket_only' = ticket_only \ {t}

\* l.108-110, l.118-120, l.140-142: record the pair and take both out of the pools
AddPair(g, t, pass) ==
  /\ matched' = Append(matched, <<g, t>>)
  /\ match_pass' = Append(match_pass, pass)
  /\ github_only' = github_only \ {g}
  /\ ticket_only' = ticket_only \ {t}

NoPair == UNCHANGED <<matched, match_pass, github_only, ticket_only>>

\* merge_datasets l.40-43 calling _match_users, l.100-105.  The two sets
\* built at l.101-102 get some iteration order, which they keep while
\* elements are only discarded.
CallMatchUsers ==
  /\ pc = "merge_datasets"
  /\ pc' = "exact"
  /\ matched' = <<>>
  /\ match_pass' = <<>>
  /\ github_only' = DOMAIN github_data
  /\ ticket_only' = DOMAIN ticket_data
  /\ gh_order' \in Orderings(DOMAIN github_data)
  /\ tk_order' \in Orderings(DOMAIN ticket_data)
  /\ loop_items' = ListOf(DOMAIN ticket_data, tk_order')
  /\ UNCHANGED <<github_data, ticket_data, team_member_map, fuzzy_seen, combined_data>>
  /\ UNCHANGED <<ioVars, aggVars, rankVars>>

\* one iteration of the loop at l.105-111
ExactStep ==
  /\ pc = "exact"
  /\ loop_items # <<>>
  /\ LET t == Head(loop_items)
         g == ExactMatch(t, ListOf(github_only, gh_order))
     IN  IF g # None THEN AddPair(g, t, "exact") ELSE NoPair
  /\ loop_items' = Tail(loop_items)
  /\ UNCHANGED <<pc, github_data, ticket_data, team_member_map, gh_order, tk_order, fuzzy_seen, combined_data>>
  /\ UNCHANGED <<ioVars, aggVars, rankVars>>

\* l.114: the manual loop starts on list(ticket_only)
StartManual ==
  /\ pc = "exact"
  /\ loop_items = <<>>
  /\ pc' = "manual"
  /\ loop_items' = ListOf(ticket_only, tk_order)
  /\ UNCHANGED <<github_data, ticket_data, team_member_map, gh_order, tk_order, matched, github_only, ticket_only, match_pass, fuzzy_seen, combined_data>>
  /\ UNCHANGED <<ioVars, aggVars, rankVars>>

\* one iteration of the loop at l.114-120
ManualStep ==
  /\ pc = "manual"
  /\ loop_items # <<>>
  /\ LET t == Head(loop_items)
         g == ManualMatch(t, team_member_map, github_only)
     IN  IF g # None THEN AddPair(g, t, "manual") ELSE NoPair
  /\ loop_items' = Tail(loop_items)
  /\ UNCHANGED <<pc, github_data, ticket_data, team_member_map, gh_order, tk_order, fuzzy_seen, combined_data>>
  /\ UNCHANGED <<ioVars, aggVars, rankVars>>

\* StartFuzzy iterating ticket_users instead of ticket_only
StartFuzzy_AllTickets ==
  /\ pc = "manual"
  /\ loop_items = <<>>
  /\ pc' = "fuzzy"
  /\ loop_items' = ListOf(DOMAIN ticket_data, tk_order)
  /\ UNCHANGED <<github_data, ticket_data, team_member_map, gh_order, tk_order, matched, github_only, ticket_only, match_pass, fuzzy_seen, combined_data>>
  /\ UNCHANGED <<ioVars, aggVars, rankVars>>

\* l.123: the fuzzy loop starts on list(ticket_only)
StartFuzzy ==
  /\ pc = "manual"
  /\ loop_items = <<>>
  /\ pc' = "fuzzy"
  /\ loop_items' = ListOf(ticket_only, tk_order)
  /\ UNCHANGED <<github_data, ticket_data, team_member_map, gh_order, tk_order, matched, github_only, ticket_only, match_pass, fuzzy_seen, combined_data>>
  /\ UNCHANGED <<ioVars, aggVars, rankVars>>

\* one iteration of the loop at l.123-143
FuzzyStep ==
  /\ pc = "fuzzy"
  /\ loop_items # <<>>
  /\ LET t == Head(loop_items)
         best == BestFuzzyMatch(t, ListOf(github_only, gh_order), None, Threshold)
     IN  /\ IF Truthy(best[1]) THEN AddPair(best[1], t, "fuzzy") ELSE NoPair
         /\ fuzzy_seen' = fuzzy_seen \cup {t} \cup github_only
  /\ loop_items' = Tail(loop_items)
  /\ UNCHANGED <<pc, github_data, ticket_data, team_member_map, gh_order, tk_order, combined_data>>
  /\ UNCHANGED <<ioVars, aggVars, rankVars>>

\* l.145-149: the result is handed back to merge_datasets
ReturnMatches ==
  /\ pc = "fuzzy"
  /\ loop_items = <<>>
  /\ pc' = "matched"
  /\ UNCHANGED <<ioVars, aggVars, matchVars, rankVars>>

\* ------------------------------------------------------------------------
\* DataCombiner.merge_datasets  (data_processor.py l.24-83, l.151-210)
\* ------------------------------------------------------------------------
\* {} as passed for the absent side
EmptyMetrics == <<>>

\* _merge_user_metrics: every field is read with .get(key, default).  The
\* joined string of active_repos is kept as the set of joined names.
MergeUserMetrics(username, github_metrics, ticket_metrics, data_source) ==
  [github_username |-> username,
   total_commits |-> Get(github_metrics, "total_commits", 0),
   commit_frequency |-> Get(github_metrics, "commit_frequency", 0),
   prs_created |-> Get(github_metrics, "prs_created", 0),
   prs_merged |-> Get(github_metrics, "prs_merged", 0),
   pr_merge_rate |-> Get(github_metrics, "pr_merge_rate", 0),
   issues_closed |-> Get(github_metrics, "issues_closed", 0),
   reviews_given |-> Get(github_metrics, "reviews_given", 0),
   reviews_received |-> Get(github_metrics, "reviews_received", 0),
   review_participation |-> Get(github_metrics, "review_participation", 0),
   active_repos |-> Get(github_metrics, "active_repos", {}),
   total_tickets |-> Get(ticket_metrics, "total_tickets", 0),
   tickets_open |-> Get(ticket_metrics, "tickets_open", 0),
   tickets_closed |-> Get(ticket_metrics, "tickets_closed", 0),
   data_sources |-> data_source]

\* CombinedRecords without the loop over ticket_only (l.71-80)
CombinedRecords_DropsTicketOnly(pairs, gh_list, tk_list, gh_data, tk_data) ==
  [i \in 1..Len(pairs) |->
      MergeUserMetrics(pairs[i][1], Get(gh_data, pairs[i][1], EmptyMetrics),
                       Get(tk_data, pairs[i][2], EmptyMetrics), "GitHub+Sheets")]
  \o [i \in 1..Len(gh_list) |->
      MergeUserMetrics(gh_list[i], Get(gh_data, gh_list[i], EmptyMetrics), EmptyMetrics, "GitHub Only")]

\* l.47-80: the records of the matched pairs, then of github_only, then of
\* ticket_only (the two lists in the iteration order of their sets)
CombinedRecords(pairs, gh_list, tk_list, gh_data, tk_data) ==
  [i \in 1..Len(pairs) |->
      MergeUserMetrics(pairs[i][1], Get(gh_data, pairs[i][1], EmptyMetrics),
                       Get(tk_data, pairs[i][2], EmptyMetrics), "GitHub+Sheets")]
  \o [i \in 1..Len(gh_list) |->
      MergeUserMetrics(gh_list[i], Get(gh_data, gh_list[i], EmptyMetrics), EmptyMetrics, "GitHub Only")]
  \o [i \in 1..Len(tk_list) |->
      MergeUserMetrics(tk_list[i], EmptyMetrics, Get(tk_data, tk_list[i], EmptyMetrics), "Sheets Only")]

\* merge_datasets l.45-83, after _match_users has returned
BuildCombined ==
  /\ pc = "matched"
  /\ pc' = "merged"
  /\ combined_data' = CombinedRecords(matched, ListOf(github_only, gh_order), ListOf(ticket_only, tk_order), github_data, ticket_data)
  /\ UNCHANGED <<github_data, ticket_data, team_member_map, gh_order, tk_order, matched, github_only, ticket_only, loop_items, match_pass, fuzzy_seen>>
  /\ UNCHANGED <<ioVars, aggVars, rankVars>>

\* ------------------------------------------------------------------------
\* _match_users as a function of its arguments and of the visiting orders
\* of its two sets  (data_processor.py l.100-149)
\* ------------------------------------------------------------------------
\* one of the three loops, l.105-111, l.114-120 or l.123-143, run over items
RECURSIVE MatchPass(_, _, _, _, _)
MatchPass(pass, items, matches, mapping, order) ==
  IF items = <<>> THEN matches
  ELSE LET t == Head(items)
           candidates == ListOf(matches.github_only, order)
           g == CASE pass = "exact" -> ExactMatch(t, candidates)
                  [] pass = "manual" -> ManualMatch(t, mapping, matches.github_only)
                  [] pass = "fuzzy" -> BestFuzzyMatch(t, candidates, None, Threshold)[1]
           paired == IF pass = "fuzzy" THEN Truthy(g) ELSE g # None
       IN  MatchPass(pass, Tail(items),
                     IF paired
                     THEN [matched |-> Append(matches.matched, <<g, t>>),
                           github_only |-> matches.github_only \ {g},
                           ticket_only |-> matches.ticket_only \ {t}]
                     ELSE matches,
                     mapping, order)

\* l.100-149 with the sets visited in the orders github_order and ticket_order
MatchUsers(github_users, ticket_users, mapping, github_order, ticket_order) ==
  LET start == [matched |-> <<>>, github_only |-> github_users, ticket_only |-> ticket_users]
      exact == MatchPass("exact", ListOf(ticket_users, ticket_order), start, mapping, github_order)
      manual == MatchPass("manual", ListOf(exact.ticket_only, ticket_order), exact, mapping, github_order)
  IN  MatchPass("fuzzy", ListOf(manual.ticket_only, ticket_order), manual, mapping, github_order)

\* ------------------------------------------------------------------------
\* Specification of identity resolution and merge: merge_datasets is called
\* on some github_data, ticket_data and manual mapping
\* ------------------------------------------------------------------------
MatchInit ==
  /\ IoIdle
  /\ pc = "merge_datasets"
  /\ commits = <<>>
  /\ pull_requests = <<>>
  /\ issues = <<>>
  /\ user_metrics = <<>>
  /\ agg_todo = <<>>
  /\ issue_credits = <<>>
  /\ github_data \in Dicts(GitHubPool, GitHubMetricsPool, MaxGitHubUsers)
  /\ ticket_data \in Dicts(TicketPool, TicketMetricsPool, MaxTicketUsers)
  /\ team_member_map \in Dicts(MapKeys, MapValues, MaxMappings)
  /\ gh_order = <<>>
  /\ tk_order = <<>>
  /\ matched = <<>>
  /\ match_pass = <<>>
  /\ github_only = {}
  /\ ticket_only = {}
  /\ loop_items = <<>>
  /\ fuzzy_seen = {}
  /\ combined_data = <<>>
  /\ RankIdle

MatchNext ==
  \/ CallMatchUsers
  \/ ExactStep
  \/ StartManual
  \/ ManualStep
  \/ StartFuzzy
  \/ FuzzyStep
  \/ ReturnMatches
  \/ BuildCombined

SpecMatch == MatchInit /\ [][MatchNext]_vars

\* ------------------------------------------------------------------------
\* PerformanceRanker  (performance_ranker.py).  Scores on the 0-100 scale
\* are kept in hundredths (5000 is 50.0); the AI scores on the 0-10 scale
\* in tenths.
\* ------------------------------------------------------------------------
\* least and greatest element of a non-empty set of numbers
MinOf(S) == CHOOSE x \in S : \A y \in S : x <= y
MaxOf(S) == CHOOSE x \in S : \A y \in S : x >= y

\* round(n / d) for any sign of n and d
Round(n, d) == IF d > 0 THEN RoundDiv(n, d) ELSE RoundDiv(0 - n, 0 - d)

\* normalize_to_100 answering 0.0 for a cohort of equal values
NormalizeTo100_ZeroWhenEqual(value, min_val, max_val) ==
  IF max_val = min_val THEN 0
  ELSE Round((value - min_val) * 10000, max_val - min_val)

\* normalize_to_100, l.20-36
NormalizeTo100(value, min_val, max_val) ==
  IF max_val = min_val THEN 5000
  ELSE Round((value - min_val) * 10000, max_val - min_val)

\* the github_username keys of a list of engineer dicts
Usernames(engineer_data) == {engineer_data[i].github_username : i \in 1..Len(engineer_data)}

\* the dict a loop or comprehension over engineer_data builds under
\* eng['github_username']: a later record replaces an earlier one of the
\* same key
LastOf(engineer_data, username) ==
  engineer_data[MaxOf({i \in 1..Len(engineer_data) : engineer_data[i].github_username = username})]

\* l.52-55
ComplexityScores(engineer_data) ==
  [u \in Usernames(engineer_data) |-> Get(LastOf(engineer_data, u), "total_complexity_score", 0)]

\* calculate_complexity_component normalising against the first engineer's
\* score in place of the cohort's maximum
CalculateComplexityComponent_MaxOfFirst(engineer_data) ==
  LET complexity_scores == ComplexityScores(engineer_data)
      values == {complexity_scores[u] : u \in DOMAIN complexity_scores}
      min_complexity == IF values # {} THEN MinOf(values) ELSE 0
      max_complexity == IF values # {} THEN Get(engineer_data[1], "total_complexity_score", 0) ELSE 0
  IN  [u \in DOMAIN complexity_scores |->
         NormalizeTo100(complexity_scores[u], min_complexity, max_complexity)]

\* calculate_complexity_component, l.51-75
CalculateComplexityComponent(engineer_data) ==
  LET complexity_scores == ComplexityScores(engineer_data)
      values == {complexity_scores[u] : u \in DOMAIN complexity_scores}
      min_complexity == IF values # {} THEN MinOf(values) ELSE 0
      max_complexity == IF values # {} THEN MaxOf(values) ELSE 0
  IN  [u \in DOMAIN complexity_scores |->
         NormalizeTo100(complexity_scores[u], min_complexity, max_complexity)]

\* OtherScore dividing by the number of all components
OtherScore_MeanOfAllFive(eng, min_freq, max_freq, min_review, max_review) ==
  LET ai_analysis == Get(eng, "ai_analysis", <<>>)
      code_quality == Get(ai_analysis, "code_quality", <<>>)
      review_quality == Get(ai_analysis, "review_quality", <<>>)
      components == <<Get(code_quality, "quality_score", 0) * 100,
                      (Get(review_quality, "thoroughness_score", 0)
                       + Get(review_quality, "helpfulness_score", 0)) * 50,
                      NormalizeTo100(Get(eng, "commit_frequency", 0), min_freq, max_freq),
                      Get(eng, "pr_merge_rate", 0),
                      NormalizeTo100(Get(eng, "review_participation", 0), min_review, max_review)>>
  IN  RoundDiv(SumSeq(components), Len(components))

\* l.112-155: the score of one engineer
OtherScore(eng, min_freq, max_freq, min_review, max_review) ==
  LET ai_analysis == Get(eng, "ai_analysis", <<>>)
      code_quality == Get(ai_analysis, "code_quality", <<>>)
      review_quality == Get(ai_analysis, "review_quality", <<>>)
      code_score == Get(code_quality, "quality_score", 0) * 100
      review_score == (Get(review_quality, "thoroughness_score", 0)
                       + Get(review_quality, "helpfulness_score", 0)) * 50
      commit_freq_norm == NormalizeTo100(Get(eng, "commit_frequency", 0), min_freq, max_freq)
      pr_merge_rate == Get(eng, "pr_merge_rate", 0)
      review_participation_norm == NormalizeTo100(Get(eng, "review_participation", 0), min_review, max_review)
      components == <<code_score, review_score, commit_freq_norm, pr_merge_rate, review_participation_norm>>
      non_zero_components == SelectSeq(components, LAMBDA c : c > 0)
  IN  IF non_zero_components # <<>>
      THEN RoundDiv(SumSeq(non_zero_components), Len(non_zero_components))
      ELSE 0

\* calculate_other_component passing the maximum as min_val and the minimum
\* as max_val
CalculateOtherComponent_MinMaxSwapped(engineer_data) ==
  LET commit_frequencies == {Get(engineer_data[i], "commit_frequency", 0) : i \in 1..Len(engineer_data)}
      review_participations == {Get(engineer_data[i], "review_participation", 0) : i \in 1..Len(engineer_data)}
      min_freq == IF commit_frequencies # {} THEN MinOf(commit_frequencies) ELSE 0
      max_freq == IF commit_frequencies # {} THEN MaxOf(commit_frequencies) ELSE 0
      min_review == IF review_participations # {} THEN MinOf(review_participations) ELSE 0
      max_review == IF review_participations # {} THEN MaxOf(review_participations) ELSE 0
  IN  [u \in Usernames(engineer_data) |->
         OtherScore(LastOf(engineer_data, u), max_freq, min_freq, max_review, min_review)]

\* calculate_other_component, l.98-159
CalculateOtherComponent(engineer_data) ==
  LET commit_frequencies == {Get(engineer_data[i], "commit_frequency", 0) : i \in 1..Len(engineer_data)}
      review_participations == {Get(engineer_data[i], "review_participation", 0) : i \in 1..Len(engineer_data)}
      min_freq == IF commit_frequencies # {} THEN MinOf(commit_frequencies) ELSE 0
      max_freq == IF commit_frequencies # {} THEN MaxOf(commit_frequencies) ELSE 0
      min_review == IF review_participations # {} THEN MinOf(review_participations) ELSE 0
      max_review == IF review_participations # {} THEN MaxOf(review_participations) ELSE 0
  IN  [u \in Usernames(engineer_data) |->
         OtherScore(LastOf(engineer_data, u), min_freq, max_freq, min_review, max_review)]

\* calculate_composite_scores with the weights 0.6 and 0.4
CalculateCompositeScores_OtherWeights(engineer_data) ==
  LET complexity_scores == CalculateComplexityComponent(engineer_data)
      other_scores == CalculateOtherComponent(engineer_data)
  IN  [u \in DOMAIN complexity_scores |->
         [complexity_component |-> complexity_scores[u],
          other_component |-> Get(other_scores, u, 0),
          composite_score |-> RoundDiv(6 * complexity_scores[u] + 4 * Get(other_scores, u, 0), 10)]]

\* calculate_composite_scores, l.183-205 (both weights are 0.5)
CalculateCompositeScores(engineer_data) ==
  LET complexity_scores == CalculateComplexityComponent(engineer_data)
      other_scores == CalculateOtherComponent(engineer_data)
  IN  [u \in DOMAIN complexity_scores |->
         LET complexity_comp == complexity_scores[u]
             other_comp == Get(other_scores, u, 0)
         IN  [complexity_component |-> complexity_comp,
              other_component |-> other_comp,
              composite_score |-> RoundDiv(complexity_comp + other_comp, 2)]]

\* _get_rank_label with the two bounds exclusive
GetRankLabel_ExclusiveBounds(rank, total) ==
  IF rank = 1 THEN "Top Performer"
  ELSE IF rank * 10 < total THEN "High Performer"
  ELSE IF rank * 2 < total THEN "Above Average"
  ELSE "Developing"

\* _get_rank_label, l.279-286 (the labels without their pictograms)
GetRankLabel(rank, total) ==
  IF rank = 1 THEN "Top Performer"
  ELSE IF rank * 10 <= total THEN "High Performer"
  ELSE IF rank * 2 <= total THEN "Above Average"
  ELSE "Developing"

\* a dict with some keys set (dict[key] = value for every key of fields)
SetFields(d, fields) == fields @@ d

\* WithScores adding the new composite score to one the dict already has
WithScores_Accumulates(eng, composite_scores) ==
  LET scores == Get(composite_scores, eng.github_username,
                    [complexity_component |-> 0, other_component |-> 0, composite_score |-> 0])
  IN  SetFields(eng, [complexity_component |-> scores.complexity_component,
                      other_component |-> scores.other_component,
                      composite_score |-> scores.composite_score + Get(eng, "composite_score", 0)])

\* l.233-243: every record gets the scores stored under its username
WithScores(eng, composite_scores) ==
  SetFields(eng, Get(composite_scores, eng.github_username,
                     [complexity_component |-> 0, other_component |-> 0, composite_score |-> 0]))

\* InsertDescending putting x before the entries of an equal key
RECURSIVE InsertDescending_TiesReversed(_, _, _)
InsertDescending_TiesReversed(ordered, x, key) ==
  IF ordered = <<>> THEN <<x>>
  ELSE IF key[Head(ordered)] > key[x]
       THEN <<Head(ordered)>> \o InsertDescending_TiesReversed(Tail(ordered), x, key)
       ELSE <<x>> \o ordered

\* x put into a list that is ordered by descending key[.], behind the
\* entries of an equal key
RECURSIVE InsertDescending(_, _, _)
InsertDescending(ordered, x, key) ==
  IF ordered = <<>> THEN <<x>>
  ELSE IF key[Head(ordered)] >= key[x]
       THEN <<Head(ordered)>> \o InsertDescending(Tail(ordered), x, key)
       ELSE <<x>> \o ordered

\* sorted(items, key=..., reverse=True) for the keys key[x]: descending,
\* entries of an equal key in their order in items
RECURSIVE SortedDescending(_, _)
SortedDescending(items, key) ==
  IF items = <<>> THEN <<>>
  ELSE InsertDescending(SortedDescending(SubSeq(items, 1, Len(items) - 1), key),
                        items[Len(items)], key)

\* rank_engineers, l.226-266, on the dicts heap[positions[1]], ...: the
\* returned list, as positions, and below the heap after the call (the
\* dicts of the list get their fields in place)
RankedPositions(heap, positions) ==
  LET engineer_data == [i \in 1..Len(positions) |-> heap[positions[i]]]
      composite_scores == CalculateCompositeScores(engineer_data)
      scored == [p \in DOMAIN heap |->
                   IF p \in Range(positions) THEN WithScores(heap[p], composite_scores) ELSE heap[p]]
  IN  SortedDescending(positions, [p \in Range(positions) |-> scored[p].composite_score])

RankedHeap(heap, positions) ==
  LET engineer_data == [i \in 1..Len(positions) |-> heap[positions[i]]]
      composite_scores == CalculateCompositeScores(engineer_data)
      ranked == RankedPositions(heap, positions)
      total_engineers == Len(ranked)
      last_rank(p) == MaxOf({i \in 1..total_engineers : ranked[i] = p})
  IN  [p \in DOMAIN heap |->
         IF p \in Range(positions)
         THEN SetFields(WithScores(heap[p], composite_scores),
                        [rank |-> last_rank(p),
                         percentile |-> RoundDiv((total_engineers - (last_rank(p) - 1)) * 1000, total_engineers),
                         rank_label |-> GetRankLabel(last_rank(p), total_engineers)])
         ELSE heap[p]]

\* ------------------------------------------------------------------------
\* MetricsCalculator.calculate_derived_metrics (data_processor.py l.291-328);
\* the three derived values in tenths
\* ------------------------------------------------------------------------
\* WithDerivedMetrics with weight 1 for a review given
WithDerivedMetrics_ReviewWeightOne(user_data) ==
  LET total_commits == Get(user_data, "total_commits", 0)
      total_tickets == Get(user_data, "total_tickets", 0)
      tickets_closed == Get(user_data, "tickets_closed", 0)
  IN  SetFields(user_data,
        [commits_per_ticket |-> IF total_tickets > 0 THEN RoundDiv(total_commits * 10, total_tickets) ELSE 0,
         activity_score |-> total_commits * 10 + Get(user_data, "prs_created", 0) * 20
                            + Get(user_data, "reviews_given", 0) * 10 + total_tickets * 10,
         ticket_closure_rate |-> IF total_tickets > 0 THEN RoundDiv(tickets_closed * 1000, total_tickets) ELSE 0])

WithDerivedMetrics(user_data) ==
  LET total_commits == Get(user_data, "total_commits", 0)
      total_tickets == Get(user_data, "total_tickets", 0)
      tickets_closed == Get(user_data, "tickets_closed", 0)
  IN  SetFields(user_data,
        [commits_per_ticket |-> IF total_tickets > 0 THEN RoundDiv(total_commits * 10, total_tickets) ELSE 0,
         activity_score |-> total_commits * 10 + Get(user_data, "prs_created", 0) * 20
                            + Get(user_data, "reviews_given", 0) * 15 + total_tickets * 10,
         ticket_closure_rate |-> IF total_tickets > 0 THEN RoundDiv(tickets_closed * 1000, total_tickets) ELSE 0])

\* ------------------------------------------------------------------------
\* generate_individual_reports (main.py l.31-258): the bot filter, the AI
\* analysis of every engineer, the ranking
\* ------------------------------------------------------------------------
BotAccounts == {"claude", "dependabot", "github-code-quality", "renovate",
                "snyk", "greenkeeper", "codecov", "sonarcloud"}

BotPatterns == {"[bot]", "-bot", "bot-", "bot_"}

\* text.endswith(suffix)
EndsWith(text, suffix) ==
  /\ Len(suffix) <= Len(text)
  /\ SubSeq(text, Len(text) - Len(suffix) + 1, Len(text)) = suffix

\* is_bot_account, l.75-112
IsBotAccount(username) ==
  LET username_lower == Lower(Chars(username))
  IN  \/ \E b \in BotAccounts : Chars(b) = username_lower
      \/ \E pattern \in BotPatterns : IsSubstring(Chars(pattern), username_lower)
      \/ EndsWith(username_lower, Chars("bot"))
      \/ EndsWith(username_lower, Chars("agent"))

\* an analysis result with the three scores the ranker reads, in tenths
Analysis(quality, thoroughness, helpfulness) ==
  [code_quality |-> [quality_score |-> quality],
   review_quality |-> [thoroughness_score |-> thoroughness, helpfulness_score |-> helpfulness]]

\* get_fallback_analysis, code_analyzer.py l.402-426
FallbackAnalysis == Analysis(0, 0, 0)

\* what the analysis of one engineer can end with: an analyzer's result, or
\* the fallback (analysis disabled, analyzer not built, future failed)
AnalysisPool == {FallbackAnalysis, Analysis(75, 80, 60)}

\* main.py l.376-391: main hands the aggregation result to merge_datasets
CallMergeDatasets ==
  /\ pc = "aggregated"
  /\ pc' = "merge_datasets"
  /\ UNCHANGED <<ioVars, aggVars, matchVars, rankVars>>

\* main.py l.394-401: handle_unmatched_users only reports; then
\* calculate_derived_metrics adds its fields to the dicts of combined_data
\* and returns the same list
CalculateDerivedMetrics ==
  /\ pc = "merged"
  /\ pc' = "derived"
  /\ combined_data' = [i \in 1..Len(combined_data) |-> WithDerivedMetrics(combined_data[i])]
  /\ enhanced_data' = [i \in 1..Len(combined_data) |-> i]
  /\ UNCHANGED <<github_data, ticket_data, team_member_map, gh_order, tk_order, matched, github_only, ticket_only, loop_items, match_pass, fuzzy_seen>>
  /\ UNCHANGED <<ioVars, aggVars, ranked_engineers, norm_call, analyzer, ai_tasks, raised_data>>

\* main.py l.114-123: the engineers that are no bot accounts
FilterBotAccounts ==
  /\ pc = "derived"
  /\ pc' = "ai_analysis"
  /\ enhanced_data' = SelectSeq(enhanced_data, LAMBDA p : ~IsBotAccount(combined_data[p].github_username))
  /\ UNCHANGED <<ioVars, aggVars, matchVars, ranked_engineers, norm_call, analyzer, ai_tasks, raised_data>>

\* a future of the AI step: state is "running", "hung" (its call never
\* returns), "done" (the future is completed) or "collected" (as_completed
\* has yielded it); outcome tells how analyze_single_engineer ended
Task(state, outcome, value) == [state |-> state, outcome |-> outcome, value |-> value]

\* analyze_single_engineer returning the analyzer's dict also when a call raised
AnalyzeSingleEngineer_NoHandler(outcome, result) == result

\* analyze_single_engineer, l.158-192: the dict of the analyzer's results
\* when its calls returned, get_fallback_analysis() when one of them raised
\* an Exception (l.190-192)
AnalyzeSingleEngineer(outcome, result) ==
  IF outcome = "raised" THEN FallbackAnalysis ELSE result

\* eng['ai_analysis'] = get_fallback_analysis() for eng in enhanced_data
FallbackForAll(heap, positions) ==
  [p \in DOMAIN heap |->
     IF p \in Range(positions) THEN SetFields(heap[p], [ai_analysis |-> FallbackAnalysis]) ELSE heap[p]]

\* l.154, l.218-221: AI analysis is disabled in the configuration
AnalysisDisabled ==
  /\ pc = "ai_analysis"
  /\ pc' = "rank_engineers"
  /\ analyzer' = "disabled"
  /\ combined_data' = FallbackForAll(combined_data, enhanced_data)
  /\ UNCHANGED <<github_data, ticket_data, team_member_map, gh_order, tk_order, matched, github_only, ticket_only, loop_items, match_pass, fuzzy_seen>>
  /\ UNCHANGED <<ioVars, aggVars, enhanced_data, ranked_engineers, norm_call, ai_tasks, raised_data>>

\* l.155-156, l.213-217: get_analyzer raises
AnalyzerInitFails ==
  /\ pc = "ai_analysis"
  /\ pc' = "rank_engineers"
  /\ analyzer' = "init_failed"
  /\ combined_data' = FallbackForAll(combined_data, enhanced_data)
  /\ UNCHANGED <<github_data, ticket_data, team_member_map, gh_order, tk_order, matched, github_only, ticket_only, loop_items, match_pass, fuzzy_seen>>
  /\ UNCHANGED <<ioVars, aggVars, enhanced_data, ranked_engineers, norm_call, ai_tasks, raised_data>>

\* l.195-199: one task per engineer is submitted to the executor
SubmitTasks ==
  /\ pc = "ai_analysis"
  /\ pc' = "as_completed"
  /\ analyzer' = "ready"
  /\ ai_tasks' = [i \in 1..Len(enhanced_data) |-> Task("running", "none", <<>>)]
  /\ UNCHANGED <<ioVars, aggVars, matchVars, enhanced_data, ranked_engineers, norm_call, raised_data>>

\* l.158-192 in a worker thread: analyze_single_engineer of one engineer
\* returns and its future is completed
AnalyzeEngineer ==
  /\ pc = "as_completed"
  /\ \E i \in 1..Len(ai_tasks) : \E outcome \in {"returned", "raised"} : \E result \in AnalysisPool :
       /\ ai_tasks[i].state = "running"
       /\ ai_tasks' = [ai_tasks EXCEPT ![i] = Task("done", outcome, AnalyzeSingleEngineer(outcome, result))]
  /\ UNCHANGED <<pc, ioVars, aggVars, matchVars, enhanced_data, ranked_engineers, norm_call, analyzer, raised_data>>

\* code_analyzer.py l.157-183: the analyzer's request has no timeout; the
\* call of one task never returns
TaskHangs ==
  /\ pc = "as_completed"
  /\ \E i \in 1..Len(ai_tasks) :
       /\ ai_tasks[i].state = "running"
       /\ ai_tasks' = [ai_tasks EXCEPT ![i] = Task("hung", "none", <<>>)]
  /\ UNCHANGED <<pc, ioVars, aggVars, matchVars, enhanced_data, ranked_engineers, norm_call, analyzer, raised_data>>

\* l.201-210: as_completed(futures) yields a completed future, in the order
\* of completion or any other; future.result(timeout=60) returns at once
\* and the engineer gets the result.  (The future of a task holds no
\* exception, analyze_single_engineer catches them.)
CollectResult ==
  /\ pc = "as_completed"
  /\ \E i \in 1..Len(ai_tasks) :
       /\ ai_tasks[i].state = "done"
       /\ ai_tasks' = [ai_tasks EXCEPT ![i].state = "collected"]
       /\ combined_data' = [combined_data EXCEPT ![enhanced_data[i]] =
                              SetFields(@, [ai_analysis |-> ai_tasks[i].value])]
  /\ UNCHANGED <<github_data, ticket_data, team_member_map, gh_order, tk_order, matched, github_only, ticket_only, loop_items, match_pass, fuzzy_seen>>
  /\ UNCHANGED <<pc, ioVars, aggVars, enhanced_data, ranked_engineers, norm_call, analyzer, raised_data>>

\* l.201, l.212, l.224-227: as_completed has yielded every future and the
\* executor has shut down
FinishAnalysis ==
  /\ pc = "as_completed"
  /\ \A i \in 1..Len(ai_tasks) : ai_tasks[i].state = "collected"
  /\ pc' = "rank_engineers"
  /\ UNCHANGED <<ioVars, aggVars, matchVars, rankVars>>

\* rank_engineers without the test of l.226-227: on an empty list the log
\* line of l.260-264 reads ranked_engineers[0] and raises IndexError
RankEngineers_NoEmptyTest ==
  /\ pc = "rank_engineers"
  /\ pc' = IF enhanced_data = <<>> THEN "raised" ELSE "ranked"
  /\ IF enhanced_data = <<>>
     THEN combined_data' = combined_data /\ ranked_engineers' = ranked_engineers
     ELSE /\ combined_data' = RankedHeap(combined_data, enhanced_data)
          /\ ranked_engineers' = RankedPositions(combined_data, enhanced_data)
  /\ UNCHANGED <<github_data, ticket_data, team_member_map, gh_order, tk_order, matched, github_only, ticket_only, loop_items, match_pass, fuzzy_seen>>
  /\ UNCHANGED <<ioVars, aggVars, enhanced_data, norm_call, analyzer, ai_tasks, raised_data>>

\* rank_engineers(enhanced_data), performance_ranker.py l.226-266
RankEngineers ==
  /\ pc = "rank_engineers"
  /\ pc' = "ranked"
  /\ IF enhanced_data = <<>>
     THEN combined_data' = combined_data /\ ranked_engineers' = <<>>
     ELSE /\ combined_data' = RankedHeap(combined_data, enhanced_data)
          /\ ranked_engineers' = RankedPositions(combined_data, enhanced_data)
  /\ UNCHANGED <<github_data, ticket_data, team_member_map, gh_order, tk_order, matched, github_only, ticket_only, loop_items, match_pass, fuzzy_seen>>
  /\ UNCHANGED <<ioVars, aggVars, enhanced_data, norm_call, analyzer, ai_tasks, raised_data>>

\* rank_engineers(ranked_engineers): the ranker is called again, on the list
\* its first call returned
RankEngineersAgain ==
  /\ pc = "ranked"
  /\ pc' = "reranked"
  /\ IF ranked_engineers = <<>>
     THEN combined_data' = combined_data /\ ranked_engineers' = <<>>
     ELSE /\ combined_data' = RankedHeap(combined_data, ranked_engineers)
          /\ ranked_engineers' = RankedPositions(combined_data, ranked_engineers)
  /\ UNCHANGED <<github_data, ticket_data, team_member_map, gh_order, tk_order, matched, github_only, ticket_only, loop_items, match_pass, fuzzy_seen>>
  /\ UNCHANGED <<ioVars, aggVars, enhanced_data, norm_call, analyzer, ai_tasks, raised_data>>

\* normalize_to_100(value, min_val, max_val) is called
CallNormalizeTo100 ==
  /\ pc = "normalize_to_100"
  /\ pc' = "normalized"
  /\ norm_call' = Append(norm_call, NormalizeTo100(norm_call[1], norm_call[2], norm_call[3]))
  /\ UNCHANGED <<ioVars, aggVars, matchVars, enhanced_data, ranked_engineers, analyzer, ai_tasks, raised_data>>

\* ------------------------------------------------------------------------
\* Specification of the ranker: normalize_to_100 is called on some numbers,
\* or rank_engineers on some list of engineer dicts
\* ------------------------------------------------------------------------
AggIdle ==
  /\ commits = <<>>
  /\ pull_requests = <<>>
  /\ issues = <<>>
  /\ user_metrics = <<>>
  /\ agg_todo = <<>>
  /\ issue_credits = <<>>

\* an engineer dict with the keys the ranker reads; complexity is <<>> for a
\* dict without 'total_complexity_score'
Engineer(username, complexity, freq, rate, participation, analysis) ==
  LET eng == [github_username |-> username, commit_frequency |-> freq, pr_merge_rate |-> rate,
              review_participation |-> participation, ai_analysis |-> analysis]
  IN  IF complexity = <<>> THEN eng ELSE SetFields(eng, [total_complexity_score |-> complexity[1]])

\* the metric values are chosen so that no score of a cohort of up to four of
\* these dicts falls half-way between two hundredths, where Python's round of
\* a binary float and RoundDiv could differ
EngineerPool ==
  { Engineer("john-doe", <<10>>, 10, 5000, 50, Analysis(75, 80, 60)),
    Engineer("alexturn33", <<10>>, 10, 5000, 50, Analysis(75, 80, 60)),
    Engineer("bob", <<0>>, 3, 0, 0, FallbackAnalysis),
    Engineer("bob", <<10>>, 10, 10000, 200, Analysis(75, 80, 60)),
    Engineer("johndoe", <<4>>, 5, 5000, 100, Analysis(50, 40, 70)),
    Engineer("jdoe99", <<>>, 0, 0, 0, FallbackAnalysis),
    Engineer("johndoe", <<10>>, 0, 0, 0, FallbackAnalysis) }

\* a team of n engineers with distinct usernames, for the ranks and tier
\* labels of larger cohorts; the metric values avoid half-way scores as above
TeamMember(i) ==
  Engineer("eng" \o ToString(i), <<i % 5>>, i % 3, (i % 2) * 5000, (i % 2) * 100,
           IF i % 4 = 0 THEN Analysis(75, 80, 60) ELSE FallbackAnalysis)

Team(n) == [i \in 1..n |-> TeamMember(i)]

NormValues == 0..MaxValue

RankInit ==
  /\ IoIdle
  /\ AggIdle
  /\ github_data = <<>>
  /\ ticket_data = <<>>
  /\ team_member_map = <<>>
  /\ gh_order = <<>>
  /\ tk_order = <<>>
  /\ matched = <<>>
  /\ match_pass = <<>>
  /\ github_only = {}
  /\ ticket_only = {}
  /\ loop_items = <<>>
  /\ fuzzy_seen = {}
  /\ ranked_engineers = <<>>
  /\ analyzer = "none"
  /\ ai_tasks = <<>>
  /\ raised_data = <<>>
  /\ \/ /\ pc = "rank_engineers"
        /\ combined_data \in Lists(EngineerPool, MaxEngineers)
                             \cup { Team(n) : n \in (MaxEngineers + 1)..MaxTeam }
        /\ enhanced_data = [i \in 1..Len(combined_data) |-> i]
        /\ norm_call = <<>>
     \/ /\ pc = "normalize_to_100"
        /\ combined_data = <<>>
        /\ enhanced_data = <<>>
        /\ norm_call \in [1..3 -> NormValues]

RankNext ==
  \/ RankEngineers
  \/ RankEngineersAgain
  \/ CallNormalizeTo100

SpecRank == RankInit /\ [][RankNext]_vars

\* ------------------------------------------------------------------------
\* Specification of the derived metrics: calculate_derived_metrics is called
\* on some list of combined records
\* ------------------------------------------------------------------------
DerivedTicketPool ==
  { TicketMetrics(2, 1, 1), TicketMetrics(3, 2, 1), TicketMetrics(4, 1, 3), TicketMetrics(0, 0, 0) }

\* the records _merge_user_metrics builds from the sample metric bundles
DerivedRecordPool ==
  { MergeUserMetrics("john-doe", g, t, "GitHub+Sheets") :
      g \in GitHubMetricsPool \cup {EmptyMetrics}, t \in DerivedTicketPool \cup {EmptyMetrics} }

DerivedInit ==
  /\ IoIdle
  /\ pc = "merged"
  /\ AggIdle
  /\ RankIdle
  /\ github_data = <<>>
  /\ ticket_data = <<>>
  /\ team_member_map = <<>>
  /\ gh_order = <<>>
  /\ tk_order = <<>>
  /\ matched = <<>>
  /\ match_pass = <<>>
  /\ github_only = {}
  /\ ticket_only = {}
  /\ loop_items = <<>>
  /\ fuzzy_seen = {}
  /\ combined_data \in Lists(DerivedRecordPool, MaxRecords)

DerivedNext == CalculateDerivedMetrics

SpecDerived == DerivedInit /\ [][DerivedNext]_vars

\* ------------------------------------------------------------------------
\* Summary of the ranking and generation of the reports  (main.py l.229-258;
\* performance_ranker.py l.288-323)
\* ------------------------------------------------------------------------
\* get_rank_summary: {} for an empty list, else the statistics of the list
GetRankSummary(heap, ranked) ==
  IF ranked = <<>> THEN <<>>
  ELSE LET composite_scores == [i \in 1..Len(ranked) |-> heap[ranked[i]].composite_score]
       IN  [total_engineers |-> Len(ranked),
            avg_composite_score |-> RoundDiv(SumSeq(composite_scores), Len(composite_scores)),
            min_composite_score |-> MinOf(Range(composite_scores)),
            max_composite_score |-> MaxOf(Range(composite_scores)),
            top_performer |-> heap[ranked[1]].github_username,
            top_performer_score |-> heap[ranked[1]].composite_score]

\* the keys of rank_summary that main.py l.230-234 and l.256 subscript
SummaryKeysRead == {"total_engineers", "top_performer", "top_performer_score"}

\* l.229-234: the summary is fetched and three of its keys are logged; a
\* missing key raises KeyError, which leaves generate_individual_reports
LogRankSummary ==
  /\ pc = "ranked"
  /\ pc' = IF SummaryKeysRead \subseteq DOMAIN GetRankSummary(combined_data, ranked_engineers)
           THEN "generate_reports" ELSE "KeyError"
  /\ UNCHANGED <<ioVars, aggVars, matchVars, rankVars>>

\* l.236-258: one report per ranked engineer, then the closing log lines
GenerateAllReports ==
  /\ pc = "generate_reports"
  /\ pc' = "reports_generated"
  /\ UNCHANGED <<ioVars, aggVars, matchVars, rankVars>>

\* ------------------------------------------------------------------------
\* Specification of the individual reports: generate_individual_reports
\* (main.py l.31-227) is called on some enhanced_data
\* ------------------------------------------------------------------------
ReportRecordPool ==
  { WithDerivedMetrics(MergeUserMetrics("john-doe", AggregatedMetrics(3, 10, 2, 1, 5000, 1, 10, 1, 2, 50, {"org/api"}),
                                        TicketMetrics(2, 1, 1), "GitHub+Sheets")),
    WithDerivedMetrics(MergeUserMetrics("bob", AggregatedMetrics(1, 3, 0, 0, 0, 0, 0, 2, 0, 0, {"org/web"}),
                                        EmptyMetrics, "GitHub Only")),
    WithDerivedMetrics(MergeUserMetrics("dependabot", AggregatedMetrics(1, 3, 0, 0, 0, 0, 0, 2, 0, 0, {"org/web"}),
                                        EmptyMetrics, "GitHub Only")) }

ReportInit ==
  /\ IoIdle
  /\ pc = "derived"
  /\ AggIdle
  /\ github_data = <<>>
  /\ ticket_data = <<>>
  /\ team_member_map = <<>>
  /\ gh_order = <<>>
  /\ tk_order = <<>>
  /\ matched = <<>>
  /\ match_pass = <<>>
  /\ github_only = {}
  /\ ticket_only = {}
  /\ loop_items = <<>>
  /\ fuzzy_seen = {}
  /\ combined_data \in Lists(ReportRecordPool, MaxReported)
  /\ enhanced_data = [i \in 1..Len(combined_data) |-> i]
  /\ ranked_engineers = <<>>
  /\ norm_call = <<>>
  /\ analyzer = "none"
  /\ ai_tasks = <<>>
  /\ raised_data = <<>>

ReportNext ==
  \/ FilterBotAccounts
  \/ AnalysisDisabled
  \/ AnalyzerInitFails
  \/ SubmitTasks
  \/ AnalyzeEngineer
  \/ TaskHangs
  \/ CollectResult
  \/ FinishAnalysis
  \/ RankEngineers
  \/ LogRankSummary
  \/ GenerateAllReports

SpecReports == ReportInit /\ [][ReportNext]_vars

\* ------------------------------------------------------------------------
\* Specification of a comparison of two rankings: rank_engineers is called
\* on a cohort and on the same cohort with one signal of one engineer raised
\* ------------------------------------------------------------------------
CompareNames == <<"john-doe", "bob", "alexturn33", "jdoe99">>
CompareComplexity == <<10, 0, 4, 7>>

\* commit_frequency, pr_merge_rate, review_participation and ai_analysis of
\* an engineer of the compared cohorts
SignalPool ==
  { <<0, 0, 0, FallbackAnalysis>>,
    <<5, 5000, 100, Analysis(50, 40, 70)>>,
    <<10, 10000, 200, Analysis(75, 80, 60)>>,
    <<0, 10000, 0, Analysis(75, 0, 0)>>,
    <<10, 0, 200, FallbackAnalysis>>,
    <<5, 0, 0, Analysis(0, 40, 0)>> }

Signals == {"commit_frequency", "pr_merge_rate", "review_participation",
            "quality_score", "thoroughness_score", "helpfulness_score"}

\* the values a signal is raised to
RaisedValues(signal) ==
  CASE signal = "commit_frequency"     -> {1, 7}
    [] signal = "pr_merge_rate"        -> {1000, 7500}
    [] signal = "review_participation" -> {50, 150}
    [] signal = "quality_score"        -> {10, 60}
    [] signal = "thoroughness_score"   -> {10, 50}
    [] signal = "helpfulness_score"    -> {10, 65}

\* the value of a signal as the ranker reads it (l.113-133)
SignalOf(eng, signal) ==
  LET ai_analysis == Get(eng, "ai_analysis", <<>>)
  IN  CASE signal = "quality_score" -> Get(Get(ai_analysis, "code_quality", <<>>), signal, 0)
        [] signal \in {"thoroughness_score", "helpfulness_score"} ->
             Get(Get(ai_analysis, "review_quality", <<>>), signal, 0)
        [] OTHER -> Get(eng, signal, 0)

\* the engineer dict with one signal set to value
WithSignal(eng, signal, value) ==
  CASE signal = "quality_score" ->
         [eng EXCEPT !.ai_analysis.code_quality.quality_score = value]
    [] signal = "thoroughness_score" ->
         [eng EXCEPT !.ai_analysis.review_quality.thoroughness_score = value]
    [] signal = "helpfulness_score" ->
         [eng EXCEPT !.ai_analysis.review_quality.helpfulness_score = value]
    [] OTHER -> SetFields(eng, [s \in {signal} |-> value])

SignalValues(cohort, signal) == {SignalOf(cohort[i], signal) : i \in 1..Len(cohort)}

\* cohort with the signal r[2] of its engineer r[1] set to r[3]
RaisedCohort(cohort, r) == [cohort EXCEPT ![r[1]] = WithSignal(@, r[2], r[3])]

\* the raises <<engineer, signal, value>> of one signal of one engineer of
\* the cohort that leave the cohort's minimum and maximum of the signal as
\* they are
Raises(cohort) ==
  { r \in (1..Len(cohort)) \X Signals \X UNION {RaisedValues(s) : s \in Signals} :
      /\ r[3] \in RaisedValues(r[2])
      /\ r[3] > SignalOf(cohort[r[1]], r[2])
      /\ MinOf(SignalValues(RaisedCohort(cohort, r), r[2])) = MinOf(SignalValues(cohort, r[2]))
      /\ MaxOf(SignalValues(RaisedCohort(cohort, r), r[2])) = MaxOf(SignalValues(cohort, r[2])) }

RaisedCohorts(cohort) == {RaisedCohort(cohort, r) : r \in Raises(cohort)}

CompareInit ==
  /\ IoIdle
  /\ pc = "rank_engineers"
  /\ AggIdle
  /\ github_data = <<>>
  /\ ticket_data = <<>>
  /\ team_member_map = <<>>
  /\ gh_order = <<>>
  /\ tk_order = <<>>
  /\ matched = <<>>
  /\ match_pass = <<>>
  /\ github_only = {}
  /\ ticket_only = {}
  /\ loop_items = <<>>
  /\ fuzzy_seen = {}
  /\ \E n \in 1..MaxCompared : \E signals \in [1..n -> SignalPool] :
       combined_data = [i \in 1..n |->
                          Engineer(CompareNames[i], <<CompareComplexity[i]>>, signals[i][1],
                                   signals[i][2], signals[i][3], signals[i][4])]
  /\ enhanced_data = [i \in 1..Len(combined_data) |-> i]
  /\ ranked_engineers = <<>>
  /\ norm_call = <<>>
  /\ analyzer = "none"
  /\ ai_tasks = <<>>
  /\ raised_data \in RaisedCohorts(combined_data)

\* rank_engineers is called on the second cohort
RankRaisedCohort ==
  /\ pc = "ranked"
  /\ raised_data # <<>>
  /\ pc' = "compared"
  /\ raised_data' = RankedHeap(raised_data, enhanced_data)
  /\ UNCHANGED <<ioVars, aggVars, matchVars, enhanced_data, ranked_engineers, norm_call, analyzer, ai_tasks>>

CompareNext ==
  \/ RankEngineers
  \/ RankRaisedCohort

SpecCompare == CompareInit /\ [][CompareNext]_vars

\* ------------------------------------------------------------------------
\* retry_with_exponential_backoff  (utils.py l.45-88).  Delays are whole
\* seconds.  An invocation of the wrapped function returns, raises one of
\* `exceptions`, or raises something else.
\* ------------------------------------------------------------------------
Min(a, b) == IF a <= b THEN a ELSE b

\* l.66-67: the frame of wrapper when it enters the loop; calls and slept
\* are histories of the invocations of func and of the time.sleep calls
WrapperFrame(max_retries, base_delay, max_delay) ==
  [max_retries |-> max_retries, base_delay |-> base_delay, max_delay |-> max_delay,
   retries |-> 0, delay |-> base_delay, calls |-> <<>>, slept |-> <<>>]

\* l.69-71: func returns and wrapper returns its result
FuncReturns ==
  /\ pc = "wrapper"
  /\ wrapper.retries <= wrapper.max_retries
  /\ wrapper' = [wrapper EXCEPT !.calls = Append(@, "returned")]
  /\ pc' = "wrapper_returned"
  /\ UNCHANGED <<aggVars, matchVars, rankVars, main, get_issues>>

\* FuncRaises sleeping the doubled delay
FuncRaises_DoublesFirst ==
  /\ pc = "wrapper"
  /\ wrapper.retries <= wrapper.max_retries
  /\ IF wrapper.retries + 1 > wrapper.max_retries
     THEN /\ wrapper' = [wrapper EXCEPT !.calls = Append(@, "raised"), !.retries = @ + 1]
          /\ pc' = "wrapper_raised"
     ELSE /\ wrapper' = [wrapper EXCEPT !.calls = Append(@, "raised"), !.retries = @ + 1,
                                         !.slept = Append(@, Min(wrapper.delay * 2, wrapper.max_delay)),
                                         !.delay = Min(@ * 2, wrapper.max_delay)]
          /\ pc' = "wrapper"
  /\ UNCHANGED <<aggVars, matchVars, rankVars, main, get_issues>>

\* l.72-84: func raises one of `exceptions`; after the last retry the
\* exception is re-raised, else wrapper sleeps delay and doubles it
FuncRaises ==
  /\ pc = "wrapper"
  /\ wrapper.retries <= wrapper.max_retries
  /\ IF wrapper.retries + 1 > wrapper.max_retries
     THEN /\ wrapper' = [wrapper EXCEPT !.calls = Append(@, "raised"), !.retries = @ + 1]
          /\ pc' = "wrapper_raised"
     ELSE /\ wrapper' = [wrapper EXCEPT !.calls = Append(@, "raised"), !.retries = @ + 1,
                                         !.slept = Append(@, wrapper.delay),
                                         !.delay = Min(@ * 2, wrapper.max_delay)]
          /\ pc' = "wrapper"
  /\ UNCHANGED <<aggVars, matchVars, rankVars, main, get_issues>>

\* l.70 with an exception that is not one of `exceptions`: it leaves wrapper
FuncRaisesOther ==
  /\ pc = "wrapper"
  /\ wrapper.retries <= wrapper.max_retries
  /\ wrapper' = [wrapper EXCEPT !.calls = Append(@, "other")]
  /\ pc' = "wrapper_raised"
  /\ UNCHANGED <<aggVars, matchVars, rankVars, main, get_issues>>

\* ------------------------------------------------------------------------
\* Specification of the retry wrapper: a wrapped function is called under
\* some max_retries, base_delay and max_delay
\* ------------------------------------------------------------------------
RetryInit ==
  /\ pc = "wrapper"
  /\ AggIdle
  /\ MatchIdle
  /\ RankIdle
  /\ main = <<>>
  /\ get_issues = <<>>
  /\ wrapper \in {WrapperFrame(n, d, m) : n \in 0..MaxRetries, d \in 1..MaxDelay, m \in 1..(2 * MaxDelay)}

RetryNext ==
  \/ FuncReturns
  \/ FuncRaises
  \/ FuncRaisesOther

SpecRetry == RetryInit /\ [][RetryNext]_vars

\* ------------------------------------------------------------------------
\* GitHubClient.get_issues  (github_fetcher.py l.380-537).  Dates are days.
\* The query asks for the closed issues of the repository ordered by
\* creation date, latest first, a page at a time.
\* ------------------------------------------------------------------------
\* issues(first: 100, ...), l.401: the size of a page, scaled down
PageSize == 2

\* the window [since, until] the issues are fetched for
Since == 3
Until == 4

\* an issue node of the response; closedAt is <<>> when the
\* key is missing or null, else the date in a tuple
IssueNode(number, createdAt, closedAt) == [number |-> number, createdAt |-> createdAt, closedAt |-> closedAt]

\* the nodes of the page that starts after cursor, and its pageInfo
PageAfter(all_issues, cursor) ==
  [nodes |-> SubSeq(all_issues, cursor + 1, Min(cursor + PageSize, Len(all_issues))),
   hasNextPage |-> cursor + PageSize < Len(all_issues),
   endCursor |-> Min(cursor + PageSize, Len(all_issues))]

\* l.515-526: the loop over the nodes of a page; yields the list of issues
\* and has_next_page, FALSE when the loop was left by the break
RECURSIVE FilterNodes(_, _)
FilterNodes(nodes, found) ==
  IF nodes = <<>> THEN [issues |-> found, has_next_page |-> TRUE]
  ELSE LET issue == Head(nodes)
       IN  IF issue.closedAt = <<>> THEN FilterNodes(Tail(nodes), found)
           ELSE IF Since <= issue.closedAt[1] /\ issue.closedAt[1] <= Until
                THEN FilterNodes(Tail(nodes), Append(found, issue))
                ELSE IF issue.closedAt[1] < Since
                     THEN [issues |-> found, has_next_page |-> FALSE]
                     ELSE FilterNodes(Tail(nodes), found)

\* l.483-486: the frame of get_issues when it enters the loop; repository
\* is the list the server pages through and failed tells whether a query
\* has failed
GetIssuesFrame(repository) ==
  [repository |-> repository, issues |-> <<>>, cursor |-> 0, has_next_page |-> TRUE, failed |-> FALSE]

\* l.499-531: one iteration of the loop, the query answered with a page
FetchPage ==
  /\ pc = "get_issues"
  /\ get_issues.has_next_page
  /\ LET page == PageAfter(get_issues.repository, get_issues.cursor)
         filtered == FilterNodes(page.nodes, get_issues.issues)
     IN  get_issues' = [get_issues EXCEPT
           !.issues = filtered.issues,
           !.has_next_page = IF filtered.has_next_page THEN page.hasNextPage ELSE FALSE,
           !.cursor = IF filtered.has_next_page THEN page.endCursor ELSE @]
  /\ pc' = "get_issues"
  /\ UNCHANGED <<aggVars, matchVars, rankVars, main, wrapper>>

\* l.500-505, l.533-535: execute_query raises and the loop is left
QueryFails ==
  /\ pc = "get_issues"
  /\ get_issues.has_next_page
  /\ get_issues' = [get_issues EXCEPT !.failed = TRUE]
  /\ pc' = "issues_returned"
  /\ UNCHANGED <<aggVars, matchVars, rankVars, main, wrapper>>

\* l.499, l.537: the loop ends and the list is returned
ReturnIssues ==
  /\ pc = "get_issues"
  /\ ~get_issues.has_next_page
  /\ pc' = "issues_returned"
  /\ UNCHANGED <<aggVars, matchVars, rankVars, ioVars>>

\* the closed issues of a repository: created on some day, closed on that
\* day or later, or without closedAt
NodePool ==
  {<<c, <<>>>> : c \in 1..(MaxDay - 2)}
    \cup {p \in {<<c, <<d>>>> : c \in 1..(MaxDay - 2), d \in 1..MaxDay} : p[2][1] >= p[1]}

\* orderBy: {field: CREATED_AT, direction: DESC}
CreatedDescending(dates) == \A i \in 1..(Len(dates) - 1) : dates[i][1] >= dates[i + 1][1]

Repositories ==
  { [i \in 1..Len(dates) |-> IssueNode(i, dates[i][1], dates[i][2])] :
      dates \in {l \in Lists(NodePool, MaxClosedIssues) : CreatedDescending(l)} }

\* ------------------------------------------------------------------------
\* Specification of the issue query: get_issues is called on a repository
\* ------------------------------------------------------------------------
GetIssuesInit ==
  /\ pc = "get_issues"
  /\ AggIdle
  /\ MatchIdle
  /\ RankIdle
  /\ main = <<>>
  /\ wrapper = <<>>
  /\ get_issues \in {GetIssuesFrame(repository) : repository \in Repositories}

GetIssuesNext ==
  \/ FetchPage
  \/ QueryFails
  \/ ReturnIssues

SpecGetIssues == GetIssuesInit /\ [][GetIssuesNext]_vars

\* ------------------------------------------------------------------------
\* main()  (main.py l.261-484; config.py l.51-225; sheets_reader.py
\* l.23-42).  main holds the environment of the run, the requests issued
\* so far, whether the Excel report was saved, the step of the ticket data
\* that raised, the place an exception reached the handler of l.482-484
\* from, and the exit status.
\* ------------------------------------------------------------------------
\* the environment of a run: the variables load_config reads, whether the
\* credentials file exists and whether it holds a usable service account
Environment(github_token, google_sheet_id, credentials_exist, credentials_usable, days_back) ==
  [github_token |-> github_token, google_sheet_id |-> google_sheet_id,
   credentials_exist |-> credentials_exist, credentials_usable |-> credentials_usable,
   days_back |-> days_back]

\* ConfigRaises that does not test the credentials file
ConfigRaises_NoCredentialsTest(env) ==
  \/ env.github_token = ""
  \/ env.google_sheet_id = ""
  \/ env.days_back <= 0

\* load_config raises (config.py l.63-87) or validate_config does (l.164-165)
ConfigRaises(env) ==
  \/ env.github_token = ""
  \/ env.google_sheet_id = ""
  \/ ~env.credentials_exist
  \/ env.days_back <= 0

\* main.py l.272-279: main before its try block
MainFrame(env) ==
  [env |-> env, requests |-> <<>>, report_written |-> FALSE, failed |-> "none",
   raised |-> "none", exit_code |-> <<>>]

\* l.482-484: an exception raised at `from` reaches the handler: sys.exit(1)
ExecutionFailed(frame, from) == [frame EXCEPT !.raised = from, !.exit_code = <<1>>]

\* l.281-285
LoadConfig ==
  /\ pc = "main"
  /\ IF ConfigRaises(main.env)
     THEN main' = ExecutionFailed(main, "config") /\ pc' = "main_exited"
     ELSE main' = main /\ pc' = "main_check_rate_limit"
  /\ UNCHANGED <<aggVars, matchVars, rankVars, wrapper, get_issues>>

\* l.287-300: the client is built and the rate limit queried;
\* check_rate_limit answers with defaults when the query fails
CheckRateLimit ==
  /\ pc = "main_check_rate_limit"
  /\ main' = [main EXCEPT !.requests = Append(@, "github")]
  /\ pc' = "main_collect"
  /\ UNCHANGED <<aggVars, matchVars, rankVars, wrapper, get_issues>>

\* l.302-310: the rate limit is low and the user does not answer 'y'
CancelRun ==
  /\ pc = "main_check_rate_limit"
  /\ main' = [main EXCEPT !.requests = Append(@, "github"), !.exit_code = <<0>>]
  /\ pc' = "main_exited"
  /\ UNCHANGED <<aggVars, matchVars, rankVars, wrapper, get_issues>>

\* l.312-334: collect_all_metrics returns
CollectAllMetrics ==
  /\ pc = "main_collect"
  /\ main' = [main EXCEPT !.requests = Append(@, "github")]
  /\ pc' = "main_sheets_client"
  /\ UNCHANGED <<aggVars, matchVars, rankVars, wrapper, get_issues>>

\* l.335-337: collect_all_metrics raises and main raises again
CollectFails ==
  /\ pc = "main_collect"
  /\ main' = ExecutionFailed([main EXCEPT !.requests = Append(@, "github")], "collect")
  /\ pc' = "main_exited"
  /\ UNCHANGED <<aggVars, matchVars, rankVars, wrapper, get_issues>>

\* l.339-345, sheets_reader.py l.23-42: GoogleSheetsClient(...) is built
\* before the try block of l.347; its RuntimeError reaches the handler
CreateSheetsClient ==
  /\ pc = "main_sheets_client"
  /\ IF main.env.credentials_usable
     THEN main' = main /\ pc' = "main_read_sheet"
     ELSE main' = ExecutionFailed([main EXCEPT !.failed = "client"], "client") /\ pc' = "main_exited"
  /\ UNCHANGED <<aggVars, matchVars, rankVars, wrapper, get_issues>>

\* l.347-351: read_sheet returns
ReadSheet ==
  /\ pc = "main_read_sheet"
  /\ main' = [main EXCEPT !.requests = Append(@, "sheets")]
  /\ pc' = "main_normalize_data"
  /\ UNCHANGED <<aggVars, matchVars, rankVars, wrapper, get_issues>>

\* l.353-354: normalize_data returns
NormalizeData ==
  /\ pc = "main_normalize_data"
  /\ pc' = "main_calculate_metrics"
  /\ UNCHANGED <<aggVars, matchVars, rankVars, ioVars>>

\* l.358-365: the metrics by assignee, none when the sheet has no ticket
CalculateTicketMetrics ==
  /\ pc = "main_calculate_metrics"
  /\ ticket_data' \in Dicts({"John Doe", "Bob"}, {TicketMetrics(2, 1, 1)}, MaxTicketUsers)
  /\ pc' = "main_aggregate"
  /\ UNCHANGED <<github_data, team_member_map, gh_order, tk_order, matched, github_only, ticket_only, loop_items, match_pass, fuzzy_seen, combined_data>>
  /\ UNCHANGED <<aggVars, rankVars, ioVars>>

\* l.367-371: read_sheet, normalize_data or calculate_metrics_by_user
\* raises; main goes on with no tickets
TicketStepFails ==
  /\ pc \in {"main_read_sheet", "main_normalize_data", "main_calculate_metrics"}
  /\ main' = [main EXCEPT !.failed = pc,
                          !.requests = IF pc = "main_read_sheet" THEN Append(@, "sheets") ELSE @]
  /\ ticket_data' = <<>>
  /\ pc' = "main_aggregate"
  /\ UNCHANGED <<github_data, team_member_map, gh_order, tk_order, matched, github_only, ticket_only, loop_items, match_pass, fuzzy_seen, combined_data>>
  /\ UNCHANGED <<aggVars, rankVars, wrapper, get_issues>>

\* l.374-391: aggregate_by_team_member on the collected data; its result
\* and the ticket metrics are handed to merge_datasets
AggregateCollected ==
  /\ pc = "main_aggregate"
  /\ github_data' \in Dicts({"john-doe", "bob"}, GitHubMetricsPool, MaxGitHubUsers)
  /\ pc' = "merge_datasets"
  /\ UNCHANGED <<ticket_data, team_member_map, gh_order, tk_order, matched, github_only, ticket_only, loop_items, match_pass, fuzzy_seen, combined_data>>
  /\ UNCHANGED <<aggVars, rankVars, ioVars>>

\* l.404-461, after merge_datasets and calculate_derived_metrics: the
\* workbook is built and saved, the summary logged
ExportExcel ==
  /\ pc = "derived"
  /\ main' = [main EXCEPT !.report_written = TRUE, !.exit_code = <<0>>]
  /\ pc' = "main_exited"
  /\ UNCHANGED <<aggVars, matchVars, rankVars, wrapper, get_issues>>

\* l.404-431: the exporter raises
ExportFails ==
  /\ pc = "derived"
  /\ main' = ExecutionFailed(main, "export")
  /\ pc' = "main_exited"
  /\ UNCHANGED <<aggVars, matchVars, rankVars, wrapper, get_issues>>

\* ------------------------------------------------------------------------
\* Specification of a run of main in some environment, without
\* --individual-reports
\* ------------------------------------------------------------------------
Environments ==
  { Environment(t, s, e, u, d) :
      t \in {"", "ghp_token"}, s \in {"", "sheet-id"}, e \in BOOLEAN, u \in BOOLEAN, d \in {0, 30} }

MainInit ==
  /\ pc = "main"
  /\ AggIdle
  /\ github_data = <<>>
  /\ ticket_data = <<>>
  /\ team_member_map \in Dicts({"John Doe"}, {"john-doe"}, MaxMappings)
  /\ gh_order = <<>>
  /\ tk_order = <<>>
  /\ matched = <<>>
  /\ match_pass = <<>>
  /\ github_only = {}
  /\ ticket_only = {}
  /\ loop_items = <<>>
  /\ fuzzy_seen = {}
  /\ combined_data = <<>>
  /\ RankIdle
  /\ wrapper = <<>>
  /\ get_issues = <<>>
  /\ main \in {MainFrame(env) : env \in {e \in Environments : e.credentials_usable => e.credentials_exist}}

MainNext ==
  \/ LoadConfig
  \/ CheckRateLimit
  \/ CancelRun
  \/ CollectAllMetrics
  \/ CollectFails
  \/ CreateSheetsClient
  \/ ReadSheet
  \/ NormalizeData
  \/ CalculateTicketMetrics
  \/ TicketStepFails
  \/ AggregateCollected
  \/ MatchNext
  \/ CalculateDerivedMetrics
  \/ ExportExcel
  \/ ExportFails

SpecMain == MainInit /\ [][MainNext]_vars

\* ------------------------------------------------------------------------
\* Specification of the pipeline (main.py l.376-401, l.469, l.114-227):
\* aggregate_by_team_member, merge_datasets, calculate_derived_metrics, the
\* bot filter, the AI analysis and rank_engineers on some raw events, ticket
\* metrics and manual mapping
\* ------------------------------------------------------------------------
PipeCommitPool ==
  { Commit("john-doe", "org/api"), Commit("bob", "org/web"), Commit("dependabot", "org/api") }

PipePullRequestPool ==
  { PullRequest("john-doe", TRUE, 11, "org/api", <<"bob">>),
    PullRequest("bob", FALSE, 12, "org/api", <<"john-doe", "john-doe">>) }

PipeIssuePool ==
  { Issue(1, "org/api", <<"bug">>, <<CrossRefPR>>, <<"john-doe">>, <<NumberField("Complexity", 10)>>),
    Issue(2, "org/api", <<>>, <<CrossRefOther, ConnectedPR>>, <<"bob">>, <<NumberField("Priority", 1)>>),
    Issue(1, "org/web", <<>>, <<ConnectedPR>>, <<"bob">>, <<TextField("complexity", <<5>>)>>) }

PipeTicketPool == {"John Doe", "Bob"}

PipeInit ==
  /\ IoIdle
  /\ pc = "aggregate"
  /\ commits \in Lists(PipeCommitPool, MaxPipeEvents)
  /\ pull_requests \in Lists(PipePullRequestPool, MaxPipeEvents)
  /\ issues \in Lists(PipeIssuePool, MaxIssues)
  /\ user_metrics = <<>>
  /\ agg_todo = <<>>
  /\ issue_credits = <<>>
  /\ github_data = <<>>
  /\ ticket_data \in Dicts(PipeTicketPool, {TicketMetrics(2, 1, 1)}, MaxTicketUsers)
  /\ team_member_map \in Dicts({"John Doe"}, {"john-doe"}, MaxMappings)
  /\ gh_order = <<>>
  /\ tk_order = <<>>
  /\ matched = <<>>
  /\ match_pass = <<>>
  /\ github_only = {}
  /\ ticket_only = {}
  /\ loop_items = <<>>
  /\ fuzzy_seen = {}
  /\ combined_data = <<>>
  /\ RankIdle

PipeNext ==
  \/ AggNext
  \/ CallMergeDatasets
  \/ MatchNext
  \/ CalculateDerivedMetrics
  \/ ReportNext

SpecPipe == PipeInit /\ [][PipeNext]_vars

\* ------------------------------------------------------------------------
\* Properties of identity resolution and merge
\* ------------------------------------------------------------------------
\* indices of the matched pairs with login g, resp. ticket name t
PairsOfLogin(g) == {i \in 1..Len(matched) : matched[i][1] = g}
PairsOfTicket(t) == {i \in 1..Len(matched) : matched[i][2] = t}

\* C1: the result of _match_users is a partition: every login of the input
\* is either the source side of exactly one pair or in github_only, never
\* both; every ticket name is either the ticket side of exactly one pair or
\* in ticket_only, never both; the pairs are made of input identities only.
C1_MatchIsPartition ==
  pc = "matched" =>
    /\ \A g \in DOMAIN github_data :
         Cardinality(PairsOfLogin(g)) + (IF g \in github_only THEN 1 ELSE 0) = 1
    /\ \A t \in DOMAIN ticket_data :
         Cardinality(PairsOfTicket(t)) + (IF t \in ticket_only THEN 1 ELSE 0) = 1
    /\ \A i \in 1..Len(matched) : matched[i][1] \in DOMAIN github_data /\ matched[i][2] \in DOMAIN ticket_data
    /\ github_only \subseteq DOMAIN github_data
    /\ ticket_only \subseteq DOMAIN ticket_data

\* a result with a pair, a source-only login and a ticket-only name
C1_Witness ==
  pc = "matched" /\ Len(matched) >= 1 /\ github_only # {} /\ ticket_only # {}

\* the identities paired by the exact or the manual pass
PairedBefore(pass_names) ==
  UNION {{matched[i][1], matched[i][2]} : i \in {j \in 1..Len(matched) : match_pass[j] \in pass_names}}

\* C2: the passes run in the order exact, manual, fuzzy, each on what the
\* earlier ones left unpaired: an iteration of the manual pass on t adds the
\* pair (g, t) exactly when the mapping has t -> g and g is still unpaired,
\* and t was not paired before; after the manual pass no unpaired ticket name
\* has a mapped login that is still unpaired; a fuzzy iteration never pairs,
\* iterates or compares an identity paired by the exact or manual pass; with
\* the mapping {"John Doe": "jdoe99"} and both present, the manual pass
\* pairs them and the fuzzy pass sees neither.
C2_PassOrder ==
  /\ [][ /\ (pc = "exact" => pc' \in {"exact", "manual"})
         /\ (pc = "manual" => pc' \in {"manual", "fuzzy"})
         /\ (pc = "fuzzy" => pc' \in {"fuzzy", "matched"})
         /\ (pc = "manual" /\ pc' = "manual" =>
               LET t == Head(loop_items)
                   mapped == t \in DOMAIN team_member_map /\ team_member_map[t] \in github_only
               IN  /\ PairsOfTicket(t) = {}
                   /\ mapped => matched' = Append(matched, <<team_member_map[t], t>>)
                   /\ ~mapped => matched' = matched)
         /\ (pc = "fuzzy" /\ pc' = "fuzzy" /\ matched' # matched =>
               LET p == matched'[Len(matched')]
               IN  /\ matched' = Append(matched, p)
                   /\ PairsOfLogin(p[1]) = {} /\ PairsOfTicket(p[2]) = {}) ]_vars
  /\ [](pc \in {"fuzzy", "matched"} =>
          /\ \A t \in ticket_only : t \in DOMAIN team_member_map => team_member_map[t] \notin github_only
          /\ fuzzy_seen \cap PairedBefore({"exact", "manual"}) = {}
          /\ \A i \in 1..Len(matched) : match_pass[i] = "manual" => team_member_map[matched[i][2]] = matched[i][1])
  /\ [](pc = "matched" /\ team_member_map = [k \in {"John Doe"} |-> "jdoe99"]
          /\ "John Doe" \in DOMAIN ticket_data /\ "jdoe99" \in DOMAIN github_data =>
          /\ \E i \in 1..Len(matched) : matched[i] = <<"jdoe99", "John Doe">> /\ match_pass[i] = "manual"
          /\ "jdoe99" \notin fuzzy_seen /\ "John Doe" \notin fuzzy_seen)

\* the manual pass paired (jdoe99, John Doe) and the fuzzy pass then ran on
\* another ticket name and another login
C2_Witness ==
  /\ pc = "matched"
  /\ \E i \in 1..Len(matched) : matched[i] = <<"jdoe99", "John Doe">> /\ match_pass[i] = "manual"
  /\ fuzzy_seen # {}

\* C3: a fuzzy iteration on t pairs it with g only if ratio(t, g) > 0.70
\* strictly, no login still unpaired has a greater ratio, and g comes first
\* in iteration order among those with the same ratio; it leaves t unpaired
\* only if no unpaired login exceeds 0.70; pairs already made stay as they
\* are.
C3_FuzzyGreedy ==
  [][ /\ (pc = "fuzzy" /\ pc' = "fuzzy" =>
            LET t == Head(loop_items)
                r(g) == Similarity[t][g]
                above(g) == 10 * r(g)[1] > 7 * r(g)[2]
                pos(g) == IndexOf(gh_order, g)
            IN  IF matched' # matched
                THEN \E g \in github_only :
                       /\ matched' = Append(matched, <<g, t>>)
                       /\ above(g)
                       /\ \A h \in github_only : r(h)[1] * r(g)[2] <= r(g)[1] * r(h)[2]
                       /\ \A h \in github_only : r(h)[1] * r(g)[2] = r(g)[1] * r(h)[2] => pos(g) <= pos(h)
                ELSE /\ \A g \in github_only : ~above(g)
                     /\ t \in ticket_only')
      /\ (pc \in {"exact", "manual", "fuzzy"} =>
            /\ Len(matched') >= Len(matched)
            /\ \A i \in 1..Len(matched) : matched'[i] = matched[i]) ]_vars

\* a ratio of exactly 0.70 (Alex Turner / alextur-sky, 14/20) left both
\* unpaired while another ticket name was paired by the fuzzy pass
C3_Witness ==
  /\ pc = "matched"
  /\ "Alex Turner" \in ticket_only /\ "alextur-sky" \in github_only
  /\ Similarity["Alex Turner"]["alextur-sky"] = <<14, 20>>
  /\ \E i \in 1..Len(matched) : match_pass[i] = "fuzzy"

\* the input identities a combined record stands for
RepresentsLogin(r, g) == r.github_username = g /\ r.data_sources \in {"GitHub+Sheets", "GitHub Only"}
RepresentsTicket(r, t) ==
  \/ r.github_username = t /\ r.data_sources = "Sheets Only"
  \/ r.data_sources = "GitHub+Sheets" /\ <<r.github_username, t>> \in Range(matched)

GitHubSideIs(r, m) ==
  /\ r.total_commits = m.total_commits /\ r.commit_frequency = m.commit_frequency
  /\ r.prs_created = m.prs_created /\ r.prs_merged = m.prs_merged /\ r.pr_merge_rate = m.pr_merge_rate
  /\ r.issues_closed = m.issues_closed /\ r.reviews_given = m.reviews_given
  /\ r.reviews_received = m.reviews_received /\ r.review_participation = m.review_participation
  /\ r.active_repos = m.active_repos
GitHubSideIsDefault(r) ==
  /\ r.total_commits = 0 /\ r.commit_frequency = 0 /\ r.prs_created = 0 /\ r.prs_merged = 0
  /\ r.pr_merge_rate = 0 /\ r.issues_closed = 0 /\ r.reviews_given = 0 /\ r.reviews_received = 0
  /\ r.review_participation = 0 /\ r.active_repos = {}
TicketSideIs(r, m) ==
  r.total_tickets = m.total_tickets /\ r.tickets_open = m.tickets_open /\ r.tickets_closed = m.tickets_closed
TicketSideIsDefault(r) == r.total_tickets = 0 /\ r.tickets_open = 0 /\ r.tickets_closed = 0

\* C4: merge_datasets returns one record per matched pair, per source-only
\* login and per ticket-only name: the length is the sum of the three, every
\* input identity is represented by exactly one record, the key is the login
\* (the ticket name for ticket-only records), the provenance tag says which
\* sides are present, the present side carries that identity's metrics and
\* the absent side the zero/empty defaults.
C4_MergeOneRecordEach ==
  pc = "merged" =>
    /\ Len(combined_data) = Len(matched) + Cardinality(github_only) + Cardinality(ticket_only)
    /\ \A g \in DOMAIN github_data :
         Cardinality({i \in 1..Len(combined_data) : RepresentsLogin(combined_data[i], g)}) = 1
    /\ \A t \in DOMAIN ticket_data :
         Cardinality({i \in 1..Len(combined_data) : RepresentsTicket(combined_data[i], t)}) = 1
    /\ \A i \in 1..Len(matched) : \E j \in 1..Len(combined_data) :
         LET r == combined_data[j]
         IN  /\ r.github_username = matched[i][1] /\ r.data_sources = "GitHub+Sheets"
             /\ GitHubSideIs(r, github_data[matched[i][1]])
             /\ TicketSideIs(r, ticket_data[matched[i][2]])
    /\ \A g \in github_only : \E j \in 1..Len(combined_data) :
         LET r == combined_data[j]
         IN  /\ r.github_username = g /\ r.data_sources = "GitHub Only"
             /\ GitHubSideIs(r, github_data[g]) /\ TicketSideIsDefault(r)
    /\ \A t \in ticket_only : \E j \in 1..Len(combined_data) :
         LET r == combined_data[j]
         IN  /\ r.github_username = t /\ r.data_sources = "Sheets Only"
             /\ GitHubSideIsDefault(r) /\ TicketSideIs(r, ticket_data[t])

\* a merge with a record of each provenance
C4_Witness ==
  /\ pc = "merged"
  /\ \A tag \in {"GitHub+Sheets", "GitHub Only", "Sheets Only"} :
       \E i \in 1..Len(combined_data) : combined_data[i].data_sources = tag

\* ------------------------------------------------------------------------
\* Properties of the aggregation
\* ------------------------------------------------------------------------
AggLogins == {"john-doe", "bob"}

\* sum of the values of a function with a finite domain
RECURSIVE SumValues(_)
SumValues(f) ==
  IF DOMAIN f = {} THEN 0
  ELSE LET x == CHOOSE y \in DOMAIN f : TRUE
       IN  f[x] + SumValues([y \in DOMAIN f \ {x} |-> f[y]])

\* a field of the aggregation result summed over all identities
TotalOf(field) == SumValues([u \in DOMAIN github_data |-> github_data[u][field]])

CreditsOfNumber(n) == {i \in 1..Len(issue_credits) : issue_credits[i][2] = n}
CreditsOfIssue(repo, n) == {i \in 1..Len(issue_credits) : issue_credits[i][1] = repo /\ issue_credits[i][2] = n}

\* C6 as stated: every issue number is attributed to at most one closer and
\* adds at most 1 to the sum of issues_closed over all identities.
C6_PerNumberOnce ==
  pc = "aggregated" =>
    \A k \in 1..Len(issues) :
      /\ Cardinality(CreditsOfNumber(issues[k].number)) <= 1
      /\ Cardinality({u \in DOMAIN user_metrics : issues[k].number \in user_metrics[u].issue_numbers}) <= 1

\* C6 (amended): every issue, identified by its repository and number, is
\* attributed to at most one closer and adds at most 1 to the sum of
\* issues_closed; the sum is the number of increments, each identity's
\* issues_closed is the number of issue numbers attributed to it and it has
\* at most that many complexity samples; an entry whose number its closer
\* already has changes nothing.  An issue number alone can be attributed to
\* two closers when issues of two repositories share it.
C6_PerIssueOnce ==
  /\ [](pc = "aggregated" =>
          /\ \A k \in 1..Len(issues) :
               /\ Cardinality(CreditsOfIssue(issues[k].repo, issues[k].number)) <= 1
               /\ Cardinality({issue_credits[i][3] : i \in CreditsOfIssue(issues[k].repo, issues[k].number)}) <= 1
          /\ TotalOf("issues_closed") = Len(issue_credits)
          /\ \A u \in DOMAIN user_metrics :
               /\ github_data[u].issues_closed = Cardinality(user_metrics[u].issue_numbers)
               /\ Len(user_metrics[u].complexity_scores) <= github_data[u].issues_closed)
  /\ [][pc = "agg_issues" /\ pc' = "agg_issues"
          /\ Closer(Head(agg_todo)) \in DOMAIN user_metrics
          /\ Head(agg_todo).number \in user_metrics[Closer(Head(agg_todo))].issue_numbers
          => user_metrics' = user_metrics /\ issue_credits' = issue_credits]_vars

\* the same valid issue listed twice was counted once
C6_Witness ==
  /\ pc = "aggregated"
  /\ Len(issues) = 2 /\ issues[1] = issues[2]
  /\ Len(issue_credits) = 1
  /\ TotalOf("issues_closed") = 1

ReviewEvents ==
  UNION {{<<i, k>> : k \in {j \in 1..Len(pull_requests[i].reviewers) :
                               pull_requests[i].author # None /\ pull_requests[i].reviewers[j] # None}} :
         i \in 1..Len(pull_requests)}

\* C8: every review event with a known reviewer on a pull request with a
\* known author counts once for the reviewer and once for the author, so
\* the reviews_given and reviews_received of all identities add up to the
\* same number; prs_created counts the pull requests of the author and
\* prs_merged those of them with a merge timestamp.
C8_ReviewAndPRCounts ==
  pc = "aggregated" =>
    /\ TotalOf("reviews_given") = Cardinality(ReviewEvents)
    /\ TotalOf("reviews_received") = TotalOf("reviews_given")
    /\ \A u \in DOMAIN github_data :
         /\ github_data[u].reviews_given = Cardinality({e \in ReviewEvents : pull_requests[e[1]].reviewers[e[2]] = u})
         /\ github_data[u].reviews_received = Cardinality({e \in ReviewEvents : pull_requests[e[1]].author = u})
         /\ github_data[u].prs_created = Cardinality({i \in 1..Len(pull_requests) : pull_requests[i].author = u})
         /\ github_data[u].prs_merged = Cardinality({i \in 1..Len(pull_requests) : pull_requests[i].author = u /\ pull_requests[i].merged})
    /\ \A i \in 1..Len(pull_requests) : pull_requests[i].author # None => pull_requests[i].author \in DOMAIN github_data

\* a merged and an unmerged pull request with reviews, one of them by an
\* unknown reviewer
C8_Witness ==
  /\ pc = "aggregated"
  /\ \E i, j \in 1..Len(pull_requests) :
       /\ pull_requests[i].merged /\ pull_requests[i].author # None
       /\ ~pull_requests[j].merged /\ None \in Range(pull_requests[j].reviewers)
  /\ TotalOf("reviews_given") = 2

\* ------------------------------------------------------------------------
\* Properties of the ranking
\* ------------------------------------------------------------------------
\* the total complexity the aggregator computed for the identity of a record
\* (0 for an identity without GitHub side, which has no complexity samples)
AggregatedComplexity(r) ==
  IF r.github_username \in DOMAIN github_data
  THEN github_data[r.github_username].total_complexity_score
  ELSE 0

\* C9 as stated: after the pipeline the complexity_component of every ranked
\* record is the min-max normalization, over the ranked cohort, of the total
\* complexity the aggregator computed for its identity; in a cohort whose
\* totals range from 0 to 10 an identity with 10 has 100.0 and one with 0
\* has 0.0.
C9_ComplexityFromAggregation ==
  pc = "ranked" /\ ranked_engineers # <<>> =>
    LET cohort == Range(ranked_engineers)
        totals == {AggregatedComplexity(combined_data[p]) : p \in cohort}
    IN  \A p \in cohort :
          /\ combined_data[p].complexity_component =
               NormalizeTo100(AggregatedComplexity(combined_data[p]), MinOf(totals), MaxOf(totals))
          /\ (MinOf(totals) = 0 /\ MaxOf(totals) = 10 /\ AggregatedComplexity(combined_data[p]) = 10)
               => combined_data[p].complexity_component = 10000
          /\ (MinOf(totals) = 0 /\ MaxOf(totals) = 10 /\ AggregatedComplexity(combined_data[p]) = 0)
               => combined_data[p].complexity_component = 0

\* C10: normalize_to_100 answers 50.0 for every value when min equals max;
\* for min < max and a value from min to max its answer is from 0 to 100,
\* 0 for min and 100 for max.  After rank_engineers every
\* complexity_component is from 0 to 100, and when all engineers of the
\* cohort have the same total complexity every complexity_component is 50.0.
C10_NormalizeTo100 ==
  /\ pc = "normalized" =>
       LET value == norm_call[1]
           min_val == norm_call[2]
           max_val == norm_call[3]
           result == norm_call[4]
       IN  /\ min_val = max_val => result = 5000
           /\ (min_val < max_val /\ min_val <= value /\ value <= max_val) =>
                /\ 0 <= result /\ result <= 10000
                /\ value = min_val => result = 0
                /\ value = max_val => result = 10000
  /\ pc = "ranked" =>
       /\ \A p \in Range(ranked_engineers) :
            0 <= combined_data[p].complexity_component /\ combined_data[p].complexity_component <= 10000
       /\ (\A p, q \in Range(enhanced_data) :
             Get(combined_data[p], "total_complexity_score", 0) = Get(combined_data[q], "total_complexity_score", 0))
            => \A p \in Range(ranked_engineers) : combined_data[p].complexity_component = 5000

\* normalize_to_100 was called with min equal to max and another value
C10_Witness ==
  /\ pc = "normalized"
  /\ norm_call[2] = norm_call[3]
  /\ norm_call[1] # norm_call[2]
  /\ norm_call[4] = 5000

\* the list rank_engineers was called on
Cohort == [i \in 1..Len(enhanced_data) |-> combined_data[enhanced_data[i]]]

\* the five components of an engineer of a cohort: code-quality score x10,
\* mean of the two review scores x10, normalized commit frequency, PR merge
\* rate, normalized review participation
FiveComponents(eng, cohort) ==
  LET frequencies == {Get(cohort[i], "commit_frequency", 0) : i \in 1..Len(cohort)}
      participations == {Get(cohort[i], "review_participation", 0) : i \in 1..Len(cohort)}
  IN  <<eng.ai_analysis.code_quality.quality_score * 100,
        (eng.ai_analysis.review_quality.thoroughness_score
         + eng.ai_analysis.review_quality.helpfulness_score) * 50,
        NormalizeTo100(Get(eng, "commit_frequency", 0), MinOf(frequencies), MaxOf(frequencies)),
        Get(eng, "pr_merge_rate", 0),
        NormalizeTo100(Get(eng, "review_participation", 0), MinOf(participations), MaxOf(participations))>>

\* x is n / d rounded to a whole number (a half may go either way)
IsRounded(x, n, d) == 2 * (x * d - n) <= d /\ 2 * (n - x * d) <= d

\* C11: after rank_engineers the other_component of every identity is the
\* mean of those of its five components that are greater than zero, rounded
\* to 2 decimals, and 0 when all five are zero.
C11_OtherComponentMean ==
  pc = "ranked" =>
    \A p \in Range(ranked_engineers) :
      LET components == FiveComponents(LastOf(Cohort, combined_data[p].github_username), Cohort)
          positive == SelectSeq(components, LAMBDA c : c > 0)
      IN  IF positive = <<>>
          THEN combined_data[p].other_component = 0
          ELSE IsRounded(combined_data[p].other_component, SumSeq(positive), Len(positive))

\* an engineer with one component above zero (30.0, which is its
\* other_component) next to one with all of zero
C11_Witness ==
  /\ pc = "ranked"
  /\ \E p, q \in Range(ranked_engineers) :
       /\ Len(SelectSeq(FiveComponents(combined_data[p], Cohort), LAMBDA c : c > 0)) = 1
       /\ combined_data[p].other_component = 3000
       /\ SelectSeq(FiveComponents(combined_data[q], Cohort), LAMBDA c : c > 0) = <<>>
       /\ combined_data[q].other_component = 0

\* C12: after rank_engineers the composite_score of every identity is half
\* its complexity_component plus half its other_component, rounded to 2
\* decimals; two identities with the total complexity 10 and 0 and the
\* other_component 50.0 each have the composite scores 75.0 and 25.0 and the
\* ranks 1 and 2.
C12_CompositeScore ==
  pc = "ranked" =>
    /\ \A p \in Range(ranked_engineers) :
         IsRounded(combined_data[p].composite_score,
                   combined_data[p].complexity_component + combined_data[p].other_component, 2)
    /\ \A a, b \in Range(ranked_engineers) :
         (/\ Len(ranked_engineers) = 2
          /\ combined_data[a].github_username # combined_data[b].github_username
          /\ Get(combined_data[a], "total_complexity_score", 0) = 10
          /\ Get(combined_data[b], "total_complexity_score", 0) = 0
          /\ combined_data[a].other_component = 5000
          /\ combined_data[b].other_component = 5000)
         => /\ combined_data[a].composite_score = 7500
            /\ combined_data[b].composite_score = 2500
            /\ combined_data[a].rank = 1
            /\ combined_data[b].rank = 2

\* the cohort of the example, the engineer with the total complexity 0 first
C12_Witness ==
  /\ pc = "ranked"
  /\ Len(enhanced_data) = 2
  /\ Get(combined_data[1], "total_complexity_score", 0) = 0
  /\ Get(combined_data[2], "total_complexity_score", 0) = 10
  /\ combined_data[1].github_username # combined_data[2].github_username
  /\ combined_data[1].other_component = 5000
  /\ combined_data[2].other_component = 5000
  /\ combined_data[2].composite_score = 7500
  /\ ranked_engineers = <<2, 1>>

\* C13: for a non-empty list rank_engineers returns a permutation of the
\* records of the list, the record at place i has the rank i, the
\* composite_score does not increase along the list, and records of the same
\* composite_score are in their order in the input list.
C13_StableRanking ==
  (pc = "ranked" /\ enhanced_data # <<>>) =>
    /\ Len(ranked_engineers) = Len(enhanced_data)
    /\ Range(ranked_engineers) = Range(enhanced_data)
    /\ \A i \in 1..Len(ranked_engineers) : combined_data[ranked_engineers[i]].rank = i
    /\ \A i, j \in 1..Len(ranked_engineers) :
         i < j =>
           /\ combined_data[ranked_engineers[i]].composite_score >= combined_data[ranked_engineers[j]].composite_score
           /\ combined_data[ranked_engineers[i]].composite_score = combined_data[ranked_engineers[j]].composite_score
                => IndexOf(enhanced_data, ranked_engineers[i]) < IndexOf(enhanced_data, ranked_engineers[j])

\* two engineers of the same composite_score behind one of a lower score
C13_Witness ==
  /\ pc = "ranked"
  /\ Len(ranked_engineers) = 3
  /\ ranked_engineers = <<2, 3, 1>>
  /\ combined_data[2].composite_score = combined_data[3].composite_score
  /\ combined_data[1].composite_score < combined_data[2].composite_score

\* C14: a record of rank r in a ranking of N records has percentile
\* (1 - (r-1)/N) * 100 rounded to one decimal -- 100.0 at rank 1, 100/N and
\* never 0 at rank N, 50.0 for the second of two -- and the label of the top
\* tier for r = 1, else of the high tier when r/N <= 0.10, else of the
\* above-average tier when r/N <= 0.50, else of the developing tier
C14_PercentileAndLabel ==
  pc = "ranked" =>
    \A i \in 1..Len(ranked_engineers) :
      LET eng == combined_data[ranked_engineers[i]]
          N == Len(ranked_engineers)
          r == eng.rank
      IN  /\ IsRounded(eng.percentile, 1000 * N - 1000 * (r - 1), N)
          /\ r = 1 => eng.percentile = 1000
          /\ r = N => IsRounded(eng.percentile, 1000, N) /\ eng.percentile > 0
          /\ (N = 2 /\ r = 2) => eng.percentile = 500
          /\ eng.rank_label = IF r = 1 THEN "Top Performer"
                              ELSE IF 10 * r <= N THEN "High Performer"
                              ELSE IF 2 * r <= N THEN "Above Average"
                              ELSE "Developing"

\* a ranking of twenty in which the second record is in the high tier, the
\* tenth in the above-average tier and the eleventh in the developing tier
C14_Witness ==
  /\ pc = "ranked"
  /\ Len(ranked_engineers) = 20
  /\ combined_data[ranked_engineers[2]].rank_label = "High Performer"
  /\ combined_data[ranked_engineers[3]].rank_label = "Above Average"
  /\ combined_data[ranked_engineers[10]].rank_label = "Above Average"
  /\ combined_data[ranked_engineers[11]].rank_label = "Developing"
  /\ combined_data[ranked_engineers[20]].percentile = 50

\* C15: rank_engineers applied to the list a first call returned leaves the
\* complexity_component, other_component and composite_score of every record
\* as the first call set them
C15_RankingIdempotent ==
  [][(pc = "ranked" /\ pc' = "reranked") =>
       \A p \in Range(ranked_engineers) :
         /\ combined_data'[p].complexity_component = combined_data[p].complexity_component
         /\ combined_data'[p].other_component = combined_data[p].other_component
         /\ combined_data'[p].composite_score = combined_data[p].composite_score]_vars

\* the ranker was called again on a ranking of three records that the first
\* call had reordered and given different scores
C15_Witness ==
  /\ pc = "reranked"
  /\ Len(ranked_engineers) = 3
  /\ ranked_engineers # enhanced_data
  /\ combined_data[ranked_engineers[1]].composite_score > combined_data[ranked_engineers[2]].composite_score
  /\ combined_data[ranked_engineers[2]].composite_score > combined_data[ranked_engineers[3]].composite_score

\* C16: rank_engineers called on an empty list returns an empty ranking and
\* raises no error
C16_EmptyRanking ==
  [][(pc = "rank_engineers" /\ enhanced_data = <<>>) =>
       (pc' = "ranked" /\ ranked_engineers' = <<>>)]_vars

\* rank_engineers has returned from a call on the empty list
C16_Witness ==
  /\ pc = "ranked"
  /\ enhanced_data = <<>>
  /\ ranked_engineers = <<>>

\* C17: calculate_derived_metrics and rank_engineers leave every record
\* object that was passed to them with the fields and values it had before
\* the call
C17_NoInPlaceMutation ==
  [][((pc = "merged" /\ pc' = "derived") \/ (pc = "rank_engineers" /\ pc' = "ranked")) =>
       \A p \in DOMAIN combined_data : combined_data'[p] = combined_data[p]]_vars

\* ------------------------------------------------------------------------
\* Properties of the derived metrics (values in tenths)
\* ------------------------------------------------------------------------
\* C18: after calculate_derived_metrics every record has commits_per_ticket =
\* total_commits / total_tickets and ticket_closure_rate = tickets_closed /
\* total_tickets * 100, each rounded to one decimal and 0 when total_tickets
\* is 0, and activity_score = total_commits + 2 * prs_created +
\* 1.5 * reviews_given + total_tickets rounded to one decimal
C18_DerivedMetrics ==
  pc = "derived" =>
    \A p \in DOMAIN combined_data :
      LET user_data == combined_data[p]
          total_tickets == user_data.total_tickets
      IN  /\ IF total_tickets = 0
             THEN user_data.commits_per_ticket = 0 /\ user_data.ticket_closure_rate = 0
             ELSE /\ IsRounded(user_data.commits_per_ticket, user_data.total_commits * 10, total_tickets)
                  /\ IsRounded(user_data.ticket_closure_rate, user_data.tickets_closed * 1000, total_tickets)
          /\ IsRounded(user_data.activity_score,
                       20 * user_data.total_commits + 40 * user_data.prs_created
                       + 30 * user_data.reviews_given + 20 * total_tickets, 2)

\* the derived metrics of a record without tickets but with commits and of a
\* record whose ratios are thirds
C18_Witness ==
  /\ pc = "derived"
  /\ \E p, q \in DOMAIN combined_data :
        /\ combined_data[p].total_tickets = 0
        /\ combined_data[p].total_commits = 3
        /\ combined_data[p].commits_per_ticket = 0
        /\ combined_data[p].activity_score = 85
        /\ combined_data[q].total_tickets = 3
        /\ combined_data[q].total_commits = 1
        /\ combined_data[q].commits_per_ticket = 3
        /\ combined_data[q].ticket_closure_rate = 333

\* ------------------------------------------------------------------------
\* Properties of the AI step of generate_individual_reports
\* ------------------------------------------------------------------------
\* C19: when rank_engineers is called every engineer of the filtered cohort
\* has an ai_analysis: the result of its own task when the task returned
\* normally, the all-zero fallback when the task raised, when the analyzer
\* could not be initialised and when AI analysis is disabled -- whatever
\* happened to the other tasks and in whatever order the tasks completed
C19_EveryEngineerAnalysed ==
  pc = "rank_engineers" =>
    /\ analyzer \in {"ready", "init_failed", "disabled"}
    /\ \A i \in 1..Len(enhanced_data) :
         LET eng == combined_data[enhanced_data[i]]
         IN  /\ ~IsBotAccount(eng.github_username)
             /\ "ai_analysis" \in DOMAIN eng
             /\ eng.ai_analysis = IF analyzer = "ready" /\ ai_tasks[i].outcome = "returned"
                                  THEN ai_tasks[i].value
                                  ELSE FallbackAnalysis

\* the batch of two engineers has reached the ranking although the task of
\* the first raised; the second has the result of its task
C19_Witness ==
  /\ pc = "rank_engineers"
  /\ analyzer = "ready"
  /\ Len(ai_tasks) = 2
  /\ ai_tasks[1].outcome = "raised"
  /\ ai_tasks[2].outcome = "returned"
  /\ combined_data[enhanced_data[1]].ai_analysis = FallbackAnalysis
  /\ combined_data[enhanced_data[2]].ai_analysis = Analysis(75, 80, 60)

\* C20: a task that does not finish does not hold up the batch: while the
\* task of an engineer hangs, the report generation can still take a step
\* (give the slot its fallback value, go on to the ranking)
C20_TimeoutFallback ==
  \A i \in 1..Len(ai_tasks) :
    (pc = "as_completed" /\ ai_tasks[i].state = "hung") => ENABLED ReportNext

\* ------------------------------------------------------------------------
\* Further properties of the ranking
\* ------------------------------------------------------------------------
\* the qualitative scores of the cohort lie in [0, 10] and the merge rates
\* in [0, 100]
InputsInRange ==
  \A i \in 1..Len(Cohort) :
    LET ai_analysis == Get(Cohort[i], "ai_analysis", <<>>)
        code_quality == Get(ai_analysis, "code_quality", <<>>)
        review_quality == Get(ai_analysis, "review_quality", <<>>)
    IN  /\ Get(code_quality, "quality_score", 0) \in 0..100
        /\ Get(review_quality, "thoroughness_score", 0) \in 0..100
        /\ Get(review_quality, "helpfulness_score", 0) \in 0..100
        /\ Get(Cohort[i], "pr_merge_rate", 0) \in 0..10000

\* C24: for a cohort whose qualitative scores lie in [0, 10] and whose merge
\* rates lie in [0, 100], the complexity_component, other_component and
\* composite_score of every record lie in [0, 100]
C24_ScoresWithin0And100 ==
  (pc = "ranked" /\ InputsInRange) =>
    \A p \in Range(ranked_engineers) :
      /\ combined_data[p].complexity_component \in 0..10000
      /\ combined_data[p].other_component \in 0..10000
      /\ combined_data[p].composite_score \in 0..10000

\* a ranking in which the complexity component takes both ends of the range
\* and a value inside it, the first engineer of the list not having the
\* largest total
C24_Witness ==
  /\ pc = "ranked"
  /\ InputsInRange
  /\ Len(enhanced_data) = 3
  /\ combined_data[1].complexity_component = 4000
  /\ \E p, q \in Range(ranked_engineers) :
       /\ combined_data[p].complexity_component = 10000
       /\ combined_data[q].complexity_component = 0
       /\ combined_data[p].other_component > 0

\* C26 as stated: raising one signal of one identity, everything else and the
\* cohort's minimum and maximum of the signal staying the same, never lowers
\* the identity's other_component or composite_score
C26_MonotoneInEverySignal ==
  pc = "compared" =>
    \A p \in DOMAIN combined_data :
      /\ raised_data[p].other_component >= combined_data[p].other_component
      /\ raised_data[p].composite_score >= combined_data[p].composite_score

\* C26 amended: the same, provided the component the raised signal feeds was
\* greater than zero before the raise (a component of zero is left out of
\* the mean, and entering the mean with a small value lowers it)
C26_MonotoneWhenCounted ==
  pc = "compared" =>
    \A p \in DOMAIN combined_data :
      LET before == FiveComponents(combined_data[p], Cohort)
          after == FiveComponents(raised_data[p], raised_data)
      IN  (\A k \in 1..5 : after[k] # before[k] => before[k] > 0) =>
            /\ raised_data[p].other_component >= combined_data[p].other_component
            /\ raised_data[p].composite_score >= combined_data[p].composite_score

\* an engineer whose commit frequency was raised from inside the cohort's
\* range, its normalized value being counted before, and whose
\* other_component and composite_score are higher for it
C26_Witness ==
  /\ pc = "compared"
  /\ \E p \in DOMAIN combined_data :
       /\ combined_data[p].commit_frequency = 5
       /\ raised_data[p].commit_frequency = 7
       /\ FiveComponents(combined_data[p], Cohort)[3] = 5000
       /\ FiveComponents(raised_data[p], raised_data)[3] = 7000
       /\ raised_data[p].other_component > combined_data[p].other_component
       /\ raised_data[p].composite_score > combined_data[p].composite_score

\* ------------------------------------------------------------------------
\* Specification of the merge on colliding identities: merge_datasets is
\* called on logins and sheet names that coincide as strings or differ
\* only in case
\* ------------------------------------------------------------------------
MergeInit ==
  /\ IoIdle
  /\ pc = "merge_datasets"
  /\ commits = <<>>
  /\ pull_requests = <<>>
  /\ issues = <<>>
  /\ user_metrics = <<>>
  /\ agg_todo = <<>>
  /\ issue_credits = <<>>
  /\ github_data \in Dicts(MergeGitHubPool, GitHubMetricsPool, MaxGitHubUsers)
  /\ ticket_data \in Dicts(MergeTicketPool, TicketMetricsPool, MaxTicketUsers)
  /\ team_member_map \in Dicts(MapKeys \cap MergeTicketPool, MapValues, MaxMappings)
  /\ gh_order = <<>>
  /\ tk_order = <<>>
  /\ matched = <<>>
  /\ match_pass = <<>>
  /\ github_only = {}
  /\ ticket_only = {}
  /\ loop_items = <<>>
  /\ fuzzy_seen = {}
  /\ combined_data = <<>>
  /\ RankIdle

SpecMerge == MergeInit /\ [][MatchNext]_vars

\* C25: the github_username keys of the records merge_datasets returns are
\* pairwise distinct, also when a sheet name left without a login is the
\* same string as a login that was paired with another sheet name
C25_DistinctUsernames ==
  pc = "merged" =>
    \A i, j \in 1..Len(combined_data) :
      combined_data[i].github_username = combined_data[j].github_username => i = j

\* C30: _match_users is deterministic: whatever the visiting orders of the
\* two sets, a call on the same arguments returns the matching that the
\* call made by merge_datasets returned
C30_MatchingIndependentOfOrder ==
  pc = "matched" =>
    \A github_order \in Orderings(DOMAIN github_data), ticket_order \in Orderings(DOMAIN ticket_data) :
      LET again == MatchUsers(DOMAIN github_data, DOMAIN ticket_data, team_member_map, github_order, ticket_order)
      IN  /\ Range(again.matched) = Range(matched)
          /\ again.github_only = github_only
          /\ again.ticket_only = ticket_only

\* C28: after aggregate_by_team_member the issues_closed of all identities
\* add up to the number of distinct issues, each identified by repository
\* and number, that are valid and have a closer login; each identity has
\* the number of its own such issues
C28_EveryValidIssueCounted ==
  pc = "aggregated" =>
    LET counted(k) == IsValidIssue(issues[k]) /\ Closer(issues[k]) # None
        of(k) == <<issues[k].repo, issues[k].number>>
    IN  /\ TotalOf("issues_closed") = Cardinality({of(k) : k \in {j \in 1..Len(issues) : counted(j)}})
        /\ \A u \in DOMAIN github_data :
             github_data[u].issues_closed =
               Cardinality({of(k) : k \in {j \in 1..Len(issues) : counted(j) /\ Closer(issues[j]) = u}})

\* C29: generate_individual_reports does not raise when the cohort is empty
\* (no record, or every record a bot account): the ranking is the empty
\* list and the summary of the ranking is read without error
C29_EmptyCohortCompletes ==
  (enhanced_data = <<>> /\ ranked_engineers = <<>>) => pc # "KeyError"

\* ------------------------------------------------------------------------
\* Properties of the retry wrapper
\* ------------------------------------------------------------------------
RECURSIVE Pow2(_)
Pow2(k) == IF k = 0 THEN 1 ELSE 2 * Pow2(k - 1)

\* the wrapped function is invoked at most max_retries + 1 times, no
\* invocation follows one that did not raise one of `exceptions`, the
\* exception is re-raised exactly after invocation max_retries + 1, and the
\* wrapper has slept once before every invocation but the first
RetryBounded ==
  pc \in {"wrapper", "wrapper_returned", "wrapper_raised"} =>
    LET n == wrapper.max_retries
        calls == wrapper.calls
    IN  /\ Len(calls) <= n + 1
        /\ \A i \in 1..(Len(calls) - 1) : calls[i] = "raised"
        /\ pc = "wrapper" => (Len(calls) <= n /\ \A i \in 1..Len(calls) : calls[i] = "raised")
        /\ pc = "wrapper_returned" => calls[Len(calls)] = "returned"
        /\ pc = "wrapper_raised" => calls[Len(calls)] \in {"raised", "other"}
        /\ (pc = "wrapper_raised" /\ calls[Len(calls)] = "raised") => Len(calls) = n + 1
        /\ Len(wrapper.slept) = (IF pc = "wrapper" THEN Len(calls) ELSE Len(calls) - 1)

C27_EveryIssueInWindow ==
  (pc = "issues_returned" /\ ~get_issues.failed) =>
    \A i \in 1..Len(get_issues.repository) :
      LET issue == get_issues.repository[i]
      IN  (issue.closedAt # <<>> /\ Since <= issue.closedAt[1] /\ issue.closedAt[1] <= Until)
            => issue \in Range(get_issues.issues)

\* ------------------------------------------------------------------------
\* Properties of main
\* ------------------------------------------------------------------------
\* C21: when the environment lacks GITHUB_TOKEN, GOOGLE_SHEET_ID or the
\* credentials file, or holds an invalid value, the run ends, once the
\* configuration was loaded, with exit status 1, no request to GitHub or
\* Google Sheets issued and no report written; before it is loaded nothing
\* was requested or written either
C21_ConfigErrorBeforeAnyFetch ==
  (pc \in {"main", "main_exited"} \/ main # <<>>) =>
    /\ pc = "main" => (main.requests = <<>> /\ ~main.report_written)
    /\ ((\/ main.env.github_token = ""
         \/ main.env.google_sheet_id = ""
         \/ ~main.env.credentials_exist
         \/ main.env.days_back <= 0) /\ pc # "main") =>
         /\ pc = "main_exited"
         /\ main.exit_code = <<1>>
         /\ main.requests = <<>>
         /\ ~main.report_written
         /\ combined_data = <<>>

C21_Witness ==
  /\ pc = "main_exited"
  /\ main.env.github_token # "" /\ main.env.google_sheet_id # "" /\ main.env.days_back > 0
  /\ ~main.env.credentials_exist
  /\ main.raised = "config"
  /\ main.exit_code = <<1>>

\* C22: when a step of obtaining the ticket data failed and nothing else
\* did, main ends with exit status 0 and the Excel report written, and
\* from the merge on the ticket metrics are empty and every record is
\* tagged 'GitHub Only'
C22_TicketFailureDegrades ==
  (main # <<>> /\ main.failed # "none") =>
    /\ ticket_data = <<>>
    /\ \A i \in 1..Len(combined_data) : combined_data[i].data_sources = "GitHub Only"
    /\ (pc = "main_exited" /\ main.raised # "export") =>
         (main.exit_code = <<0>> /\ main.report_written)
====
